---- MODULE Spec2Model ----
(***************************************************************************)
(* Frame queue / playback scheduler of the lipsync hooks.                  *)
(*                                                                         *)
(* Two hooks implement the scheduler: useMetahumanLipsync (render-clock    *)
(* based) and useArkitLipsync (the variant with the end-of-utterance       *)
(* slowdown).  `variant` selects the hook a behaviour is about.            *)
(*                                                                         *)
(* Units.  Clocks are integer milliseconds.  fadeInWeight is kept in units *)
(* of 1/FADE_IN_MS (so FADE_IN_MS stands for the weight 1.0).  The         *)
(* slowdown variant's effective elapsed time is kept in microseconds, so   *)
(* that delta * currentSpeedFactor (a multiple of 0.001) is exact.         *)
(***************************************************************************)
EXTENDS Integers, Sequences, FiniteSets

VARIABLES
    variant,            \* which hook is mounted: "metahuman" | "arkit"
    queuePresent,       \* convaiClient.blendshapeQueue exists
    mounted,            \* the component (and its useFrame callback) is mounted
    subscribed,         \* event names with a handler of this hook registered
    isSpeaking,         \* convaiClient.state.isSpeaking
    conversationActive, \* blendshapeQueue.isConversationActive()
    frames,             \* blendshapeQueue.getFrames()
    wallClock,          \* Date.now()
    renderClock,        \* threeState.clock.elapsedTime * 1000 (as of last frame)
    worldClockTimeRef,  \* worldClockTimeRef.current (useMetahumanLipsync)
    playbackState,      \* playbackStateRef.current
    uiIsPlaying,        \* React state set by setIsPlaying
    notified,           \* the setIsPlaying call of the last step:
                        \* "started" | "stopped" | "none"
    tickOutcome,        \* the return path of the useFrame call that was the
                        \* last step ("none" when it was no render frame)
    tickFrameIndex,     \* the frameIndex that call computed (-1: none)
    call,               \* the mapping-engine function called last, with its
                        \* arguments ([fn |-> "none"]: none called)
    result,             \* what that call returned or wrote
    face                \* the rig's morph slots and the hook's refs that
                        \* drive them (morphCacheRef, smoothedMorphValues,
                        \* blinkRef, idleAnimationBlendWeight)

vars == <<variant, queuePresent, mounted, subscribed, isSpeaking,
          conversationActive, frames, wallClock, renderClock,
          worldClockTimeRef, playbackState, uiIsPlaying, notified,
          tickOutcome, tickFrameIndex, call, result, face>>

\* The variables of the mapping engine's calls.
mappingVars == <<call, result>>


(***************************************************************************)
(* Program constants                                                       *)
(***************************************************************************)
TARGET_FPS == 60
FRAME_OFFSET == 15
FADE_IN_MS == 300
SLOWDOWN_FRAME_COUNT == 10
SLOWDOWN_SPEED_PERMILLE == 350

(***************************************************************************)
(* Bounds of the model                                                     *)
(***************************************************************************)
MaxTime == 67           \* the clocks stop advancing after this many ms
WallEpoch == 1000       \* Date.now() at the moment the render clock reads 0
MaxFrames == 33         \* frames buffered at most
MaxBadFrames == 1       \* invalid frames buffered at most
FrameInterval == 17     \* the interval of a 60 Hz render loop (ms)
Deltas == {FrameInterval, 50} \* intervals between two render frames (ms)
BatchSizes == {8, 17}   \* sizes of the frame batches the client delivers
SlowInterval == 150     \* the interval of a slow render loop (ms)
MaxSlowTime == 450      \* the clocks of the slow loop stop after this many ms

UNDEFINED == -1         \* a field that was never assigned (JS undefined)

Min(a, b) == IF a <= b THEN a ELSE b

(***************************************************************************)
(* Frames.  A frame is modelled by what the validity test looks at.        *)
(***************************************************************************)
FrameKinds == {"array", "object", "emptyArray", "emptyObject", "undefined"}

\* The frame kind the remote source sends for the mounted hook's format.
ValidKind == IF variant = "arkit" THEN "array" ELSE "object"

\* The empty frame of that format.
BadKind == IF variant = "arkit" THEN "emptyArray" ELSE "emptyObject"

Fill(n, k) == [i \in 1..n |-> k]

Batches == {Fill(n, ValidKind) : n \in BatchSizes} \cup {<<BadKind>>}

BadCount(fs) == Cardinality({i \in 1..Len(fs) : fs[i] \notin {"array", "object"}})

\* currentFrame && ((Array.isArray(f) && f.length > 0) ||
\*                  (typeof f === "object" && Object.keys(f).length > 0))
isValidFrame(f) == f # "undefined" /\ (f = "array" \/ f = "object")

(***************************************************************************)
(* PlaybackState                                                           *)
(***************************************************************************)
InitialPlaybackState ==
    [isPlaying |-> FALSE, startTime |-> 0, currentFrameIndex |-> 0,
     isDraining |-> FALSE, fadeInWeight |-> 0,
     slowdownAdjustedTime |-> UNDEFINED]

\* The five fields the PlaybackState of the data model lists.
PlaybackFields(st) ==
    <<st.isPlaying, st.startTime, st.currentFrameIndex, st.isDraining,
      st.fadeInWeight>>

(***************************************************************************)
(* Event handlers, as functions of the state they read.                    *)
(***************************************************************************)
\* Mutant: the handler without its !state.isPlaying guard.
handleBlendshapesAddedUnguarded(st, active, clockRef) ==
    IF active
    THEN [st EXCEPT !.isPlaying = TRUE, !.startTime = clockRef,
                    !.currentFrameIndex = 0, !.isDraining = FALSE,
                    !.fadeInWeight = 0]
    ELSE st

\* useMetahumanLipsync: handleBlendshapesAdded.  active is
\* queue?.isConversationActive(), clockRef is worldClockTimeRef.current.
handleBlendshapesAdded(st, active, clockRef) ==
    IF active /\ ~st.isPlaying
    THEN [st EXCEPT !.isPlaying = TRUE, !.startTime = clockRef,
                    !.currentFrameIndex = 0, !.isDraining = FALSE,
                    !.fadeInWeight = 0]
    ELSE st

\* useArkitLipsync: handleBlendshapesAdded.  dateNow is Date.now().
handleBlendshapesAddedArkit(st, active, dateNow) ==
    IF active /\ ~st.isPlaying
    THEN [st EXCEPT !.isPlaying = TRUE, !.startTime = dateNow,
                    !.currentFrameIndex = 0, !.isDraining = FALSE,
                    !.fadeInWeight = 0]
    ELSE st

\* useMetahumanLipsync: the effect on convaiClient.state.isSpeaking.
speakingEffect(st, speaking, clockRef) ==
    IF speaking /\ ~st.isPlaying
    THEN [st EXCEPT !.isPlaying = TRUE, !.startTime = clockRef,
                    !.currentFrameIndex = 0, !.isDraining = FALSE,
                    !.fadeInWeight = 0]
    ELSE st

\* useArkitLipsync: the effect on convaiClient.state.isSpeaking.
speakingEffectArkit(st, speaking, dateNow) ==
    IF speaking /\ ~st.isPlaying
    THEN [st EXCEPT !.isPlaying = TRUE, !.startTime = dateNow,
                    !.currentFrameIndex = 0, !.isDraining = FALSE,
                    !.fadeInWeight = 0, !.slowdownAdjustedTime = 0]
    ELSE st

\* handleStatsReceived (the two hooks' handlers are the same code).
handleStatsReceived(st) == [st EXCEPT !.isDraining = TRUE]

\* The mounted hook's "blendshapes" handler, run when Date.now() is dateNow.
OnBlendshapes(st, dateNow) ==
    IF variant = "arkit"
    THEN handleBlendshapesAddedArkit(st, queuePresent /\ conversationActive, dateNow)
    ELSE handleBlendshapesAdded(st, queuePresent /\ conversationActive, worldClockTimeRef)

\* The mounted hook's isSpeaking effect, run when Date.now() is dateNow.
OnSpeaking(st, speaking, dateNow) ==
    IF variant = "arkit"
    THEN speakingEffectArkit(st, speaking, dateNow)
    ELSE speakingEffect(st, speaking, worldClockTimeRef)

\* setIsPlaying(true) is called exactly when a handler started playback.
NotifyStarted(old, new) ==
    /\ uiIsPlaying' = IF ~old.isPlaying /\ new.isPlaying THEN TRUE ELSE uiIsPlaying
    /\ notified' = IF ~old.isPlaying /\ new.isPlaying THEN "started" ELSE "none"

\* A step that is no render frame leaves no useFrame locals behind.
NoFrame == tickOutcome' = "none" /\ tickFrameIndex' = -1

\* frames[frameIndex]: reading past the end of an array yields undefined.
Fetch(fs, frameIndex) ==
    IF frameIndex + 1 \in DOMAIN fs THEN fs[frameIndex + 1] ELSE "undefined"

(***************************************************************************)
(* Per-tick frame-index computation                                        *)
(***************************************************************************)
\* Mutant: the frame position without the lead-in offset.
TargetFrameIndexNoLead(elapsedUs) == (elapsedUs * TARGET_FPS) \div 1000000

\* Math.floor(elapsedSec * TARGET_FPS + FRAME_OFFSET), elapsed in microseconds.
TargetFrameIndex(elapsedUs) == (elapsedUs * TARGET_FPS) \div 1000000 + FRAME_OFFSET

\* Mutant: the fade-in ratio without its upper clamp.
FadeInWeightUnclamped(elapsedTimeMs) == elapsedTimeMs

\* Math.min(1, elapsedTimeSec / LIPSYNC_FADE_IN_DURATION), in 1/FADE_IN_MS.
FadeInWeight(elapsedTimeMs) == Min(FADE_IN_MS, elapsedTimeMs)

\* Mutant: frames.length taken for the last index, in the clamp and in the
\* safety check.
SelectFrameOffByOne(targetFrameIndex, len) ==
    LET frameIndex == Min(targetFrameIndex, len)
    IN  [frameIndex |-> frameIndex,
         inRange |-> ~(frameIndex < 0 \/ frameIndex > len)]

\* frameIndex = Math.min(targetFrameIndex, frames.length - 1), and the later
\* safety check (frameIndex < 0 || frameIndex >= frames.length) on it.
SelectFrame(targetFrameIndex, len) ==
    LET frameIndex == Min(targetFrameIndex, len - 1)
    IN  [frameIndex |-> frameIndex,
         inRange |-> ~(frameIndex < 0 \/ frameIndex >= len)]

\* Mutant: the end test misses the last index.
AtEndStrict(frameIndex, len) == frameIndex > len - 1

\* "Check if we're at the end of available frames".
AtEnd(frameIndex, len) == frameIndex >= len - 1

\* state.isPlaying = false; state.isDraining = false; state.currentFrameIndex = 0
StopPlayback(st) ==
    [st EXCEPT !.isPlaying = FALSE, !.isDraining = FALSE, !.currentFrameIndex = 0]

\* Mutant: currentFrameIndex is stored before the frame is validated.
PlayFrameIndexFirst(st, fs, targetFrameIndex) ==
    LET sel == SelectFrame(targetFrameIndex, Len(fs))
        frameIndex == sel.frameIndex
    IN  IF AtEnd(frameIndex, Len(fs)) /\ st.isDraining
        THEN [state |-> StopPlayback(st), outcome |-> "endStop",
              frameIndex |-> frameIndex]
        ELSE IF ~sel.inRange
        THEN [state |-> st, outcome |-> "rangeSkip", frameIndex |-> frameIndex]
        ELSE IF ~isValidFrame(Fetch(fs, frameIndex))
        THEN [state |-> [st EXCEPT !.currentFrameIndex = frameIndex],
              outcome |-> "invalid", frameIndex |-> frameIndex]
        ELSE [state |-> [st EXCEPT !.currentFrameIndex = frameIndex],
              outcome |-> "applied", frameIndex |-> frameIndex]

\* The tick from "const frameIndex = ..." to its end (the same code in both
\* hooks): stop when draining at the end, else fetch, validate and apply.
PlayFrame(st, fs, targetFrameIndex) ==
    LET sel == SelectFrame(targetFrameIndex, Len(fs))
        frameIndex == sel.frameIndex
    IN  IF AtEnd(frameIndex, Len(fs)) /\ st.isDraining
        THEN [state |-> StopPlayback(st), outcome |-> "endStop",
              frameIndex |-> frameIndex]
        ELSE IF ~sel.inRange
        THEN [state |-> st, outcome |-> "rangeSkip", frameIndex |-> frameIndex]
        ELSE IF ~isValidFrame(Fetch(fs, frameIndex))
        THEN [state |-> st, outcome |-> "invalid", frameIndex |-> frameIndex]
        ELSE [state |-> [st EXCEPT !.currentFrameIndex = frameIndex],
              outcome |-> "applied", frameIndex |-> frameIndex]

\* Mutant: an empty queue stops playback whether or not it is draining.
EmptyQueueStops(st) ==
    [state |-> StopPlayback(st), outcome |-> "emptyStop", frameIndex |-> -1]

\* The branch on frames.length === 0.
EmptyQueue(st) ==
    IF st.isDraining
    THEN [state |-> StopPlayback(st), outcome |-> "emptyStop", frameIndex |-> -1]
    ELSE [state |-> st, outcome |-> "emptyHold", frameIndex |-> -1]

\* useArkitLipsync: the effective elapsed time (microseconds) of the
\* slowdown, and the state with slowdownAdjustedTime updated.
\* deltaMs is the render loop's delta.
Slowdown(st, len, elapsedUs, deltaMs) ==
    LET normalFrameIndex == TargetFrameIndex(elapsedUs)
        framesFromEnd == len - normalFrameIndex
        slowdownProgress == 1000 - (1000 * framesFromEnd) \div SLOWDOWN_FRAME_COUNT
        currentSpeedFactor ==
            1000 - (slowdownProgress * (1000 - SLOWDOWN_SPEED_PERMILLE)) \div 1000
        falsy == st.slowdownAdjustedTime = UNDEFINED \/ st.slowdownAdjustedTime = 0
        effective == (IF falsy THEN elapsedUs ELSE st.slowdownAdjustedTime)
                     + deltaMs * currentSpeedFactor
    IN  IF framesFromEnd <= SLOWDOWN_FRAME_COUNT /\ framesFromEnd > 0
        THEN [effective |-> effective,
              state |-> [st EXCEPT !.slowdownAdjustedTime = effective]]
        ELSE [effective |-> elapsedUs,
              state |-> [st EXCEPT !.slowdownAdjustedTime = elapsedUs]]

\* The whole useFrame callback of useMetahumanLipsync, given the render
\* clock reading of this frame.
MetahumanFrame(st, fs, currentTime) ==
    IF ~queuePresent
    THEN [state |-> st, outcome |-> "noQueue", frameIndex |-> -1]
    ELSE IF ~st.isPlaying
    THEN [state |-> st, outcome |-> "idle", frameIndex |-> -1]
    ELSE IF Len(fs) = 0
    THEN EmptyQueue(st)
    ELSE LET elapsedTimeMs == currentTime - st.startTime
             faded == [st EXCEPT !.fadeInWeight = FadeInWeight(elapsedTimeMs)]
         IN  PlayFrame(faded, fs, TargetFrameIndex(elapsedTimeMs * 1000))

\* The whole useFrame callback of useArkitLipsync, given Date.now() and the
\* render loop's delta.
ArkitFrame(st, fs, dateNow, deltaMs) ==
    IF ~queuePresent
    THEN [state |-> st, outcome |-> "noQueue", frameIndex |-> -1]
    ELSE IF ~st.isPlaying
    THEN [state |-> st, outcome |-> "idle", frameIndex |-> -1]
    ELSE IF Len(fs) = 0
    THEN EmptyQueue(st)
    ELSE LET elapsedTimeMs == dateNow - st.startTime
             faded == [st EXCEPT !.fadeInWeight = FadeInWeight(elapsedTimeMs)]
             slow == Slowdown(faded, Len(fs), elapsedTimeMs * 1000, deltaMs)
         IN  PlayFrame(slow.state, fs, TargetFrameIndex(slow.effective))

(***************************************************************************)
(* The frame queue of the network client                                   *)
(***************************************************************************)
\* blendshapeQueue.reset()
QueueReset == frames' = <<>> /\ conversationActive' = FALSE

\* Mutant: the idle return path notifies and resets as well.
StopsPlaybackAlsoIdle(outcome) == outcome \in {"emptyStop", "endStop", "idle"}

\* The return paths on which the callback calls queue.reset() and
\* setIsPlaying(false).
StopsPlayback(outcome) == outcome \in {"emptyStop", "endStop"}

\* What a useFrame call leaves behind: the state, the queue reset and the
\* setIsPlaying(false) of the two stopping paths.
CommitFrame(res) ==
    /\ playbackState' = res.state
    /\ tickOutcome' = res.outcome
    /\ tickFrameIndex' = res.frameIndex
    /\ IF StopsPlayback(res.outcome)
       THEN /\ QueueReset
            /\ uiIsPlaying' = FALSE
            /\ notified' = "stopped"
       ELSE /\ UNCHANGED <<frames, conversationActive, uiIsPlaying>>
            /\ notified' = "none"

(***************************************************************************)
(* Actions                                                                 *)
(***************************************************************************)
\* The scheduler after the hook mounted.
InitScheduler ==
    /\ variant \in {"metahuman", "arkit"}
    /\ queuePresent \in BOOLEAN
    /\ mounted = TRUE
    /\ subscribed = {"blendshapes", "blendshapeStatsReceived"}
    /\ isSpeaking = FALSE
    /\ conversationActive = FALSE
    /\ frames = <<>>
    /\ wallClock = WallEpoch
    /\ renderClock = 0
    /\ worldClockTimeRef = 0
    /\ playbackState = InitialPlaybackState
    /\ uiIsPlaying = FALSE
    /\ notified = "none"
    /\ tickOutcome = "none"
    /\ tickFrameIndex = -1

\* A character whose face is not followed.
NoFace == [morphCache |-> {}]

Init ==
    /\ InitScheduler
    /\ call = [fn |-> "none"]
    /\ result = 0
    /\ face = NoFace

\* Real time passes: the interval until the next render frame is d.
Elapse(d) ==
    /\ wallClock + d - WallEpoch <= MaxTime
    /\ wallClock - WallEpoch = renderClock
    /\ wallClock' = wallClock + d
    /\ notified' = "none"
    /\ NoFrame
    /\ UNCHANGED <<variant, queuePresent, mounted, subscribed, isSpeaking,
                   conversationActive, frames, renderClock, worldClockTimeRef,
                   playbackState, uiIsPlaying>>
    /\ UNCHANGED <<mappingVars, face>>

\* The scheduler's part of the useFrame callback of useMetahumanLipsync.
SchedulerFrameMetahuman ==
    /\ variant = "metahuman"
    /\ mounted
    /\ wallClock - WallEpoch > renderClock
    /\ LET currentTime == wallClock - WallEpoch
       IN  /\ renderClock' = currentTime
           /\ worldClockTimeRef' = currentTime
           /\ CommitFrame(MetahumanFrame(playbackState, frames, currentTime))
    /\ UNCHANGED <<variant, queuePresent, mounted, subscribed, isSpeaking,
                   wallClock>>
    /\ UNCHANGED mappingVars

\* The render loop calls the useFrame callback of useMetahumanLipsync (the
\* scheduler specifications do not follow the face).
useFrameMetahuman == SchedulerFrameMetahuman /\ UNCHANGED face

\* The scheduler's part of the useFrame callback of useArkitLipsync.
SchedulerFrameArkit ==
    /\ variant = "arkit"
    /\ mounted
    /\ wallClock - WallEpoch > renderClock
    /\ LET currentTime == wallClock - WallEpoch
           delta == currentTime - renderClock
       IN  /\ renderClock' = currentTime
           /\ CommitFrame(ArkitFrame(playbackState, frames, wallClock, delta))
    /\ UNCHANGED <<variant, queuePresent, mounted, subscribed, isSpeaking,
                   wallClock, worldClockTimeRef>>
    /\ UNCHANGED mappingVars

\* The render loop calls the useFrame callback of useArkitLipsync (the
\* scheduler specifications do not follow the face).
useFrameArkit == SchedulerFrameArkit /\ UNCHANGED face

\* The client's queue turns its conversation-active flag on or off.
SetConversationActive ==
    /\ queuePresent
    /\ conversationActive' = ~conversationActive
    /\ notified' = "none"
    /\ NoFrame
    /\ UNCHANGED <<variant, queuePresent, mounted, subscribed, isSpeaking,
                   frames, wallClock, renderClock, worldClockTimeRef,
                   playbackState, uiIsPlaying>>
    /\ UNCHANGED <<mappingVars, face>>

\* The client buffers a batch of frames and emits "blendshapes".
BlendshapesEvent(batch) ==
    LET new == IF "blendshapes" \in subscribed
               THEN OnBlendshapes(playbackState, wallClock) ELSE playbackState
    IN  /\ Len(frames) + Len(batch) <= MaxFrames
        /\ BadCount(frames \o batch) <= MaxBadFrames
        /\ frames' = IF queuePresent THEN frames \o batch ELSE frames
        /\ playbackState' = new
        /\ NotifyStarted(playbackState, new)
        /\ NoFrame
        /\ UNCHANGED <<variant, queuePresent, mounted, subscribed, isSpeaking,
                       conversationActive, wallClock, renderClock,
                       worldClockTimeRef>>
        /\ UNCHANGED <<mappingVars, face>>

\* The scheduler's part of the client emitting "blendshapeStatsReceived".
SchedulerStats ==
    /\ playbackState' = IF "blendshapeStatsReceived" \in subscribed
                        THEN handleStatsReceived(playbackState)
                        ELSE playbackState
    /\ notified' = "none"
    /\ NoFrame
    /\ UNCHANGED <<variant, queuePresent, mounted, subscribed, isSpeaking,
                   conversationActive, frames, wallClock, renderClock,
                   worldClockTimeRef, uiIsPlaying>>

\* The client emits "blendshapeStatsReceived".
StatsEvent == SchedulerStats /\ UNCHANGED <<mappingVars, face>>

\* convaiClient.state.isSpeaking changes; a mounted hook re-runs its effect.
SpeakingChange ==
    LET new == IF mounted THEN OnSpeaking(playbackState, ~isSpeaking, wallClock)
               ELSE playbackState
    IN  /\ isSpeaking' = ~isSpeaking
        /\ playbackState' = new
        /\ NotifyStarted(playbackState, new)
        /\ NoFrame
        /\ UNCHANGED <<variant, queuePresent, mounted, subscribed,
                       conversationActive, frames, wallClock, renderClock,
                       worldClockTimeRef>>
        /\ UNCHANGED <<mappingVars, face>>

\* Mutant: the cleanup of the "blendshapeStatsReceived" effect is missing.
CleanupBlendshapesOnly(subs) == subs \ {"blendshapes"}

\* The subscriptions left after the effects' cleanup functions ran.
Cleanup(subs) == (subs \ {"blendshapes"}) \ {"blendshapeStatsReceived"}

\* The component unmounts: the effects' cleanups run, useFrame is removed.
Unmount ==
    /\ mounted
    /\ mounted' = FALSE
    /\ subscribed' = Cleanup(subscribed)
    /\ notified' = "none"
    /\ NoFrame
    /\ UNCHANGED <<variant, queuePresent, isSpeaking, conversationActive,
                   frames, wallClock, renderClock, worldClockTimeRef,
                   playbackState, uiIsPlaying>>
    /\ UNCHANGED <<mappingVars, face>>

\* The mounted hook: the render loop, the clock and the client's events.
Next ==
    \/ \E d \in Deltas : Elapse(d)
    \/ useFrameMetahuman
    \/ useFrameArkit
    \/ SetConversationActive
    \/ \E batch \in Batches : BlendshapesEvent(batch)
    \/ StatsEvent
    \/ SpeakingChange

Spec == Init /\ [][Next]_vars

\* The hook's lifecycle: the same steps, and the unmount.
NextLifecycle ==
    \/ Elapse(FrameInterval)
    \/ useFrameMetahuman
    \/ useFrameArkit
    \/ SetConversationActive
    \/ \E batch \in Batches : BlendshapesEvent(batch)
    \/ StatsEvent
    \/ SpeakingChange
    \/ Unmount

SpecLifecycle == Init /\ [][NextLifecycle]_vars

\* Real time passes between two render frames of a slow render loop.
ElapseSlow ==
    /\ wallClock + SlowInterval - WallEpoch <= MaxSlowTime
    /\ wallClock - WallEpoch = renderClock
    /\ wallClock' = wallClock + SlowInterval
    /\ notified' = "none"
    /\ NoFrame
    /\ UNCHANGED <<variant, queuePresent, mounted, subscribed, isSpeaking,
                   conversationActive, frames, renderClock, worldClockTimeRef,
                   playbackState, uiIsPlaying>>
    /\ UNCHANGED <<mappingVars, face>>

\* The mounted hook over a whole fade-in window: the same steps, with render
\* frames SlowInterval apart.
NextFade ==
    \/ ElapseSlow
    \/ useFrameMetahuman
    \/ useFrameArkit
    \/ SetConversationActive
    \/ \E batch \in Batches : BlendshapesEvent(batch)
    \/ StatsEvent
    \/ SpeakingChange

SpecFade == Init /\ [][NextFade]_vars

(***************************************************************************)
(* One utterance, followed to its end.  The remote source sends the        *)
(* utterance's frames, then "blendshapeStatsReceived" once, and nothing    *)
(* after it; `call` records that the statistics were sent.  The render     *)
(* loop keeps calling useFrame and time keeps passing.                     *)
(***************************************************************************)
MaxDrainFrames == 17    \* frames of the utterance at most

\* The remote source has sent the statistics of the utterance.
StatsSent == call.fn = "blendshapeStatsReceived"

\* The clock of the slow loop has a render frame left.
TimeRemains == wallClock + SlowInterval - WallEpoch <= MaxSlowTime

\* The utterance's frames arrive before its statistics.
UtteranceFrames(batch) ==
    /\ ~StatsSent
    /\ TimeRemains
    /\ Len(frames) + Len(batch) <= MaxDrainFrames
    /\ BlendshapesEvent(batch)

\* The utterance's statistics arrive, once.
UtteranceStats ==
    /\ ~StatsSent
    /\ TimeRemains
    /\ SchedulerStats
    /\ call' = [fn |-> "blendshapeStatsReceived"]
    /\ UNCHANGED <<result, face>>

\* The bot starts speaking, once, while the utterance is not over (its
\* statistics are still to come or frames of it are still buffered).
UtteranceSpeaking ==
    /\ ~isSpeaking
    /\ TimeRemains
    /\ ~StatsSent \/ frames # <<>>
    /\ SpeakingChange

NextDrain ==
    \/ ElapseSlow
    \/ useFrameMetahuman
    \/ useFrameArkit
    \/ SetConversationActive
    \/ \E batch \in Batches : UtteranceFrames(batch)
    \/ UtteranceStats
    \/ UtteranceSpeaking

\* useFrame runs on every render frame and the clock does not stop.
FairDrain ==
    /\ WF_vars(ElapseSlow)
    /\ WF_vars(useFrameMetahuman)
    /\ WF_vars(useFrameArkit)

SpecDrain == Init /\ [][NextDrain]_vars /\ FairDrain

(***************************************************************************)
(* Numbers of the mapping engine.  A JS number is modelled by the rational *)
(* it stands for: <<n, d>> with d > 0, in lowest terms.                    *)
(***************************************************************************)
RECURSIVE GCD(_, _)
GCD(a, b) == IF b = 0 THEN a ELSE GCD(b, a % b)

Abs(n) == IF n < 0 THEN 0 - n ELSE n

Rat(n, d) ==
    IF n = 0 THEN <<0, 1>>
    ELSE LET g == GCD(Abs(n), d) IN <<n \div g, d \div g>>

Zero == Rat(0, 1)
One == Rat(1, 1)

\* The operations cancel common factors before they multiply, which keeps
\* the intermediate integers small.
RAdd(a, b) ==
    LET g == GCD(a[2], b[2])
    IN  Rat(a[1] * (b[2] \div g) + b[1] * (a[2] \div g), (a[2] \div g) * b[2])
RSub(a, b) == RAdd(a, <<0 - b[1], b[2]>>)
RMul(a, b) ==
    LET g1 == GCD(Abs(a[1]), b[2])
        g2 == GCD(Abs(b[1]), a[2])
    IN  Rat((a[1] \div g1) * (b[1] \div g2), (a[2] \div g2) * (b[2] \div g1))
\* a / b for b > 0
RDiv(a, b) == RMul(a, <<b[2], b[1]>>)
RLe(a, b) ==
    LET g == GCD(a[2], b[2])
    IN  a[1] * (b[2] \div g) <= b[1] * (a[2] \div g)
RLt(a, b) == ~RLe(b, a)
RMin(a, b) == IF RLe(a, b) THEN a ELSE b
RMax(a, b) == IF RLe(a, b) THEN b ELSE a

(***************************************************************************)
(* Curve evaluator                                                         *)
(***************************************************************************)
Key(t, v) == [time |-> t, value |-> v]

\* The curves of METAHUMAN_TO_CC5_MAPPING and the jaw curve.
IdentityCurve == <<Key(Zero, Zero), Key(One, One)>>
BlinkCurve == <<Key(Zero, Zero), Key(Rat(1, 2), One), Key(One, Zero)>>
HalfCurve == <<Key(Zero, Zero), Key(One, Rat(1, 2))>>
OffsetCurve == <<Key(Zero, Rat(0 - 3497, 1000000)), Key(One, One)>>
JAW_OPEN_CURVE == <<Key(Zero, Zero), Key(One, One)>>
NoCurve == <<>>

\* Other sorted keyframe lists a mapping rule can carry: a key range
\* inside [0, 1], one reaching beyond 1, one with a degenerate segment.
LateCurve == <<Key(Rat(1, 4), Zero), Key(Rat(3, 4), One)>>
WideCurve == <<Key(Zero, Zero), Key(Rat(2, 1), One)>>
StepCurve == <<Key(Zero, Zero), Key(Rat(1, 2), Zero), Key(Rat(1, 2), One),
               Key(One, One)>>

Curves == {IdentityCurve, BlinkCurve, HalfCurve, OffsetCurve, NoCurve,
           LateCurve, WideCurve, StepCurve}

\* Inputs handed to the evaluator.
CurveInputs == {Rat(0 - 1, 2), Zero, Rat(1, 8), Rat(1, 4), Rat(1, 2),
                Rat(3, 4), One, Rat(3, 2), Rat(2, 1), Rat(3, 1)}

\* The for loop of evaluateCurve from index i on: the first pair of
\* neighbours with keys[i].time <= x <= keys[i+1].time, else the first and
\* the last key.
RECURSIVE Bracket(_, _, _)
Bracket(keys, x, i) ==
    IF i > Len(keys) - 1 THEN <<keys[1], keys[Len(keys)]>>
    ELSE IF RLe(keys[i].time, x) /\ RLe(x, keys[i + 1].time)
    THEN <<keys[i], keys[i + 1]>>
    ELSE Bracket(keys, x, i + 1)

\* evaluateCurve (evaluateJawCurve is the same code).
evaluateCurve(keys, inputValue) ==
    IF Len(keys) = 0 THEN inputValue
    ELSE LET x == RMax(Zero, RMin(One, inputValue))
             startKey == keys[1]
             endKey == keys[Len(keys)]
             br == Bracket(keys, x, 1)
             timeDelta == RSub(br[2].time, br[1].time)
         IN  IF RLe(x, startKey.time) THEN startKey.value
             ELSE IF RLe(endKey.time, x) THEN endKey.value
             ELSE IF timeDelta = Zero THEN br[1].value
             ELSE RAdd(br[1].value,
                       RMul(RSub(br[2].value, br[1].value),
                            RDiv(RSub(x, br[1].time), timeDelta)))

\* The scheduler's variables, which no call of the mapping engine touches.
schedulerVars == <<variant, queuePresent, mounted, subscribed, isSpeaking,
                   conversationActive, frames, wallClock, renderClock,
                   worldClockTimeRef, playbackState, uiIsPlaying, notified,
                   tickOutcome, tickFrameIndex>>

\* A rule's curve, or the jaw curve, is evaluated at inputValue.
CallEvaluateCurve(keys, inputValue) ==
    /\ call.fn = "none"
    /\ call' = [fn |-> "evaluateCurve", keys |-> keys, x |-> inputValue]
    /\ result' = evaluateCurve(keys, inputValue)
    /\ UNCHANGED <<schedulerVars, face>>

(***************************************************************************)
(* MetaHuman to CC5 conversion                                             *)
(***************************************************************************)
Rule(source, target, mode, curve) ==
    [source |-> source, target |-> target, mode |-> mode, curve |-> curve]

\* Rules of METAHUMAN_TO_CC5_MAPPING, in table order: BlinkL,
\* CornerPullL_CornerPullR, CornerPullL_UpperLipRaiseL,
\* FunnelDL_LowerLipDepressL, FunnelDR_LowerLipDepressR, CornerPullL_JawOpen,
\* JawOpenExtreme_JawOpen, MouthLipsTogetherUL_JawOpen.
METAHUMAN_TO_CC5_MAPPING == <<
    Rule(<<"CTRL_expressions_eyeBlinkL">>, "C_BlinkL", "Add", BlinkCurve),
    Rule(<<"CTRL_expressions_mouthCornerPullL",
           "CTRL_expressions_mouthCornerPullR">>,
         "C_CornerPullL_CornerPullR", "Add", IdentityCurve),
    Rule(<<"CTRL_expressions_mouthCornerPullL",
           "CTRL_expressions_mouthUpperLipRaiseL">>,
         "C_CornerPullL_UpperLipRaiseL", "Add", OffsetCurve),
    Rule(<<"CTRL_expressions_mouthFunnelDL",
           "CTRL_expressions_mouthLowerLipDepressL">>,
         "C_FunnelDL_LowerLipDepressL", "Add", HalfCurve),
    Rule(<<"CTRL_expressions_mouthFunnelDR",
           "CTRL_expressions_mouthLowerLipDepressR">>,
         "C_FunnelDR_LowerLipDepressR", "Add", HalfCurve),
    Rule(<<"CTRL_expressions_jawOpen",
           "CTRL_expressions_mouthCornerPullL">>,
         "C_CornerPullL_JawOpen", "Add", IdentityCurve),
    Rule(<<"CTRL_expressions_jawOpen">>,
         "CTRL_expressions_jawOpenExtreme", "Limit", IdentityCurve),
    Rule(<<"CTRL_expressions_jawOpen">>,
         "CTRL_expressions_mouthLipsTogetherUL", "Limit", IdentityCurve) >>

\* A table in the same format exercising what the engine supports and the
\* shipped table does not use: Limit rules with several sources, two rules
\* writing one target, a rule without curve, a funnel rule with the
\* identity curve.
TEST_MAPPING == <<
    Rule(<<"CTRL_expressions_mouthFunnelDL",
           "CTRL_expressions_mouthLowerLipDepressL">>,
         "C_Shared", "Add", IdentityCurve),
    Rule(<<"CTRL_expressions_mouthFunnelDL",
           "CTRL_expressions_mouthLowerLipDepressL">>,
         "C_Limit2", "Limit", NoCurve),
    Rule(<<"CTRL_expressions_mouthFunnelDL",
           "CTRL_expressions_mouthLowerLipDepressL",
           "CTRL_expressions_jawOpen">>,
         "C_Limit3", "Limit", IdentityCurve),
    Rule(<<"CTRL_expressions_jawOpen">>, "C_Shared", "Limit", IdentityCurve),
    Rule(<<"CTRL_expressions_mouthFunnelDL",
           "CTRL_expressions_mouthLowerLipDepressL">>,
         "C_FunnelDL_LowerLipDepressL", "Add", IdentityCurve),
    Rule(<<"CTRL_expressions_mouthFunnelDL">>, "C_Shared", "Add", HalfCurve) >>

RuleTables == {METAHUMAN_TO_CC5_MAPPING, TEST_MAPPING}

\* Source channels of the rules above.
SourceChannels ==
    {"CTRL_expressions_eyeBlinkL", "CTRL_expressions_mouthCornerPullL",
     "CTRL_expressions_mouthCornerPullR", "CTRL_expressions_mouthUpperLipRaiseL",
     "CTRL_expressions_mouthFunnelDL", "CTRL_expressions_mouthLowerLipDepressL",
     "CTRL_expressions_mouthFunnelDR", "CTRL_expressions_mouthLowerLipDepressR",
     "CTRL_expressions_jawOpen"}

\* Channel values of a MetaHuman frame.
ChannelValues == {Zero, Rat(3, 10), Rat(1, 2), Rat(7, 10), Rat(4, 5), One}

\* The sets of channels read by one rule.
RuleChannelSets ==
    UNION {{{rules[i].source[k] : k \in 1..Len(rules[i].source)} :
                i \in 1..Len(rules)} : rules \in RuleTables}

\* Frames as name -> value objects: those giving at most MaxChannels
\* channels, and those giving exactly the channels one rule reads.
MaxChannels == 1
MetahumanBlendshapes ==
    UNION {[names -> ChannelValues] :
           names \in {n \in SUBSET SourceChannels : Cardinality(n) <= MaxChannels}
                     \cup RuleChannelSets}

EmptyObject == [k \in {} |-> Zero]

\* The options objects a caller passes ({} when the argument is left out).
ConvertOptions == {EmptyObject, [teethDownOffset |-> Rat(3, 10)],
                   [teethDownOffset |-> Rat(1, 2)]}

\* metahumanBlendshapes[key] || 0
ValueOrZero(metahumanBlendshapes, key) ==
    IF key \in DOMAIN metahumanBlendshapes THEN metahumanBlendshapes[key]
    ELSE Zero

\* values.reduce((product, v) => product * v, 1), from index i on
RECURSIVE ReduceProduct(_, _, _)
ReduceProduct(values, i, product) ==
    IF i > Len(values) THEN product
    ELSE ReduceProduct(values, i + 1, RMul(product, values[i]))

\* Mutant: an Add rule sums its sources.
AddValueSum(source, metahumanBlendshapes) ==
    LET values == [i \in 1..Len(source) |->
                       ValueOrZero(metahumanBlendshapes, source[i])]
        sum[i \in 0..Len(source)] ==
            IF i = 0 THEN Zero ELSE RAdd(sum[i - 1], values[i])
    IN  sum[Len(source)]

\* mode 'Add'
AddValue(source, metahumanBlendshapes) ==
    ReduceProduct([i \in 1..Len(source) |->
                       ValueOrZero(metahumanBlendshapes, source[i])], 1, One)

\* Mutant: a Limit rule multiplies the later sources uncapped.
LimitValueUncapped(source, metahumanBlendshapes) ==
    IF Len(source) = 1 THEN ValueOrZero(metahumanBlendshapes, source[1])
    ELSE ReduceProduct([i \in 1..(Len(source) - 1) |->
                            ValueOrZero(metahumanBlendshapes, source[i + 1])],
                       1, One)

\* mode 'Limit'
LimitValue(source, metahumanBlendshapes) ==
    LET limit == ValueOrZero(metahumanBlendshapes, source[1])
    IN  IF Len(source) = 1 THEN limit
        ELSE ReduceProduct(
                 [i \in 1..(Len(source) - 1) |->
                      RMin(limit, ValueOrZero(metahumanBlendshapes, source[i + 1]))],
                 1, One)

\* The value of one rule before its curve.
PreCurveValue(rule, metahumanBlendshapes) ==
    IF rule.mode = "Add" THEN AddValue(rule.source, metahumanBlendshapes)
    ELSE IF rule.mode = "Limit" THEN LimitValue(rule.source, metahumanBlendshapes)
    ELSE Zero

\* The value of one rule after its curve.
CurvedValue(rule, metahumanBlendshapes) ==
    IF Len(rule.curve) > 0
    THEN evaluateCurve(rule.curve, PreCurveValue(rule, metahumanBlendshapes))
    ELSE PreCurveValue(rule, metahumanBlendshapes)

SetKey(object, key, value) ==
    [k \in DOMAIN object \cup {key} |-> IF k = key THEN value ELSE object[k]]

\* Mutant: a later rule overwrites the target.
AccumulateOverwrite(cc5Blendshapes, target, value) ==
    SetKey(cc5Blendshapes, target, value)

\* Accumulation into the target: the first writer sets, later ones multiply.
Accumulate(cc5Blendshapes, target, value) ==
    IF target \in DOMAIN cc5Blendshapes
    THEN SetKey(cc5Blendshapes, target, RMul(cc5Blendshapes[target], value))
    ELSE SetKey(cc5Blendshapes, target, value)

\* The forEach over the rules, from rule i on.
RECURSIVE ApplyRules(_, _, _, _)
ApplyRules(rules, metahumanBlendshapes, i, cc5Blendshapes) ==
    IF i > Len(rules) THEN cc5Blendshapes
    ELSE ApplyRules(rules, metahumanBlendshapes, i + 1,
                    Accumulate(cc5Blendshapes, rules[i].target,
                               CurvedValue(rules[i], metahumanBlendshapes)))

teethCorrectives ==
    <<"C_FunnelDL_LowerLipDepressL", "C_FunnelDR_LowerLipDepressR">>

\* const { teethDownOffset = 0 } = options
TeethDownOffset(options) ==
    IF "teethDownOffset" \in DOMAIN options THEN options.teethDownOffset
    ELSE Zero

\* The forEach over teethCorrectives, from target i on.
RECURSIVE ApplyTeethDown(_, _, _)
ApplyTeethDown(cc5Blendshapes, teethDownOffset, i) ==
    IF i > Len(teethCorrectives) THEN cc5Blendshapes
    ELSE LET targetName == teethCorrectives[i]
         IN  ApplyTeethDown(
                 IF targetName \in DOMAIN cc5Blendshapes
                 THEN SetKey(cc5Blendshapes, targetName,
                             RMin(One, RAdd(cc5Blendshapes[targetName],
                                            teethDownOffset)))
                 ELSE SetKey(cc5Blendshapes, targetName, teethDownOffset),
                 teethDownOffset, i + 1)

\* convertMetaHumanToCC5 over the rule table `rules`.
convertMetaHumanToCC5(rules, metahumanBlendshapes, options) ==
    ApplyTeethDown(ApplyRules(rules, metahumanBlendshapes, 1, EmptyObject),
                   TeethDownOffset(options), 1)

\* A frame is converted.  The result keeps, next to the returned object,
\* each rule's value before and after its curve.
CallConvert(rules, metahumanBlendshapes, options) ==
    /\ call.fn = "none"
    /\ call' = [fn |-> "convertMetaHumanToCC5", rules |-> rules,
                metahumanBlendshapes |-> metahumanBlendshapes,
                options |-> options]
    /\ result' = [cc5Blendshapes |->
                      convertMetaHumanToCC5(rules, metahumanBlendshapes, options),
                  preCurve |-> [i \in 1..Len(rules) |->
                                    PreCurveValue(rules[i], metahumanBlendshapes)],
                  curved |-> [i \in 1..Len(rules) |->
                                  CurvedValue(rules[i], metahumanBlendshapes)]]
    /\ UNCHANGED <<schedulerVars, face>>

(***************************************************************************)
(* ARKit direct-rename mapping                                             *)
(***************************************************************************)
ARKIT_BLENDSHAPES == <<
    "eyeBlinkLeft", "eyeLookDownLeft", "eyeLookInLeft", "eyeLookOutLeft",
    "eyeLookUpLeft", "eyeSquintLeft", "eyeWideLeft", "eyeBlinkRight",
    "eyeLookDownRight", "eyeLookInRight", "eyeLookOutRight",
    "eyeLookUpRight", "eyeSquintRight", "eyeWideRight", "jawForward",
    "jawRight", "jawLeft", "jawOpen", "mouthClose", "mouthFunnel",
    "mouthPucker", "mouthRight", "mouthLeft", "mouthSmileLeft",
    "mouthSmileRight", "mouthFrownLeft", "mouthFrownRight",
    "mouthDimpleLeft", "mouthDimpleRight", "mouthStretchLeft",
    "mouthStretchRight", "mouthRollLower", "mouthRollUpper",
    "mouthShrugLower", "mouthShrugUpper", "mouthPressLeft",
    "mouthPressRight", "mouthLowerDownLeft", "mouthLowerDownRight",
    "mouthUpperUpLeft", "mouthUpperUpRight", "browDownLeft", "browDownRight",
    "browInnerUp", "browOuterUpLeft", "browOuterUpRight", "cheekPuff",
    "cheekSquintLeft", "cheekSquintRight", "noseSneerLeft", "noseSneerRight",
    "tongueOut" >>

ARKIT_ORDER_61 == ARKIT_BLENDSHAPES
JAW_OPEN_INDEX_61 == 17
JAW_OPEN_INDEX_52 == 24
TONGUE_OUT_INDEX == 51

ArkitNames == {ARKIT_BLENDSHAPES[i] : i \in 1..Len(ARKIT_BLENDSHAPES)}

\* The values of a mapping table: a morph name, a list of morph names, null.
String(name) == [type |-> "string", morphs |-> <<name>>]
Array(names) == [type |-> "array", morphs |-> names]
Null == [type |-> "null", morphs |-> <<>>]

ARKIT_TO_CC4_EXTENDED ==
    [browDownLeft |-> String("Brow_Drop_L"),
     browDownRight |-> String("Brow_Drop_R"),
     browInnerUp |-> Array(<<"Brow_Raise_Inner_L", "Brow_Raise_Inner_R">>),
     browOuterUpLeft |-> String("Brow_Raise_Outer_L"),
     browOuterUpRight |-> String("Brow_Raise_Outer_R"),
     cheekPuff |-> Array(<<"Cheek_Puff_L", "Cheek_Puff_R">>),
     cheekSquintLeft |-> String("Cheek_Raise_L"),
     cheekSquintRight |-> String("Cheek_Raise_R"),
     eyeBlinkLeft |-> String("Eye_Blink_L"),
     eyeBlinkRight |-> String("Eye_Blink_R"),
     eyeLookDownLeft |-> String("Eye_L_Look_Down"),
     eyeLookDownRight |-> String("Eye_R_Look_Down"),
     eyeLookInLeft |-> String("Eye_L_Look_R"),
     eyeLookInRight |-> String("Eye_R_Look_L"),
     eyeLookOutLeft |-> String("Eye_L_Look_L"),
     eyeLookOutRight |-> String("Eye_R_Look_R"),
     eyeLookUpLeft |-> String("Eye_L_Look_Up"),
     eyeLookUpRight |-> String("Eye_R_Look_Up"),
     eyeSquintLeft |-> String("Eye_Squint_L"),
     eyeSquintRight |-> String("Eye_Squint_R"),
     eyeWideLeft |-> String("Eye_Wide_L"),
     eyeWideRight |-> String("Eye_Wide_R"),
     jawForward |-> String("Jaw_Forward"), jawLeft |-> String("Jaw_L"),
     jawOpen |-> Null, jawRight |-> String("Jaw_R"),
     mouthClose |-> String("Mouth_Close"),
     mouthDimpleLeft |-> String("Mouth_Dimple_L"),
     mouthDimpleRight |-> String("Mouth_Dimple_R"),
     mouthFrownLeft |-> String("Mouth_Frown_L"),
     mouthFrownRight |-> String("Mouth_Frown_R"),
     mouthFunnel |-> Array(<<"Mouth_Funnel_Up_L", "Mouth_Funnel_Up_R", "Mouth_Funnel_Down_L", "Mouth_Funnel_Down_R">>),
     mouthLeft |-> String("Mouth_L"),
     mouthLowerDownLeft |-> String("Mouth_Down_Lower_L"),
     mouthLowerDownRight |-> String("Mouth_Down_Lower_R"),
     mouthPressLeft |-> String("Mouth_Press_L"),
     mouthPressRight |-> String("Mouth_Press_R"),
     mouthPucker |-> Array(<<"Mouth_Pucker_Up_L", "Mouth_Pucker_Up_R", "Mouth_Pucker_Down_L", "Mouth_Pucker_Down_R">>),
     mouthRight |-> String("Mouth_R"),
     mouthRollLower |-> Array(<<"Mouth_Roll_In_Lower_L", "Mouth_Roll_In_Lower_R">>),
     mouthRollUpper |-> Array(<<"Mouth_Roll_In_Upper_L", "Mouth_Roll_In_Upper_R">>),
     mouthShrugLower |-> String("Mouth_Shrug_Lower"),
     mouthShrugUpper |-> String("Mouth_Shrug_Upper"),
     mouthSmileLeft |-> String("Mouth_Smile_L"),
     mouthSmileRight |-> String("Mouth_Smile_R"),
     mouthStretchLeft |-> String("Mouth_Stretch_L"),
     mouthStretchRight |-> String("Mouth_Stretch_R"),
     mouthUpperUpLeft |-> String("Mouth_Up_Upper_L"),
     mouthUpperUpRight |-> String("Mouth_Up_Upper_R"),
     noseSneerLeft |-> String("Nose_Sneer_L"),
     noseSneerRight |-> String("Nose_Sneer_R"), tongueOut |-> Null]

ARKIT_TO_RPM == [name \in ArkitNames |-> String(name)]

MappingPresets == {ARKIT_TO_CC4_EXTENDED, ARKIT_TO_RPM}

\* customMapping objects of the hook's caller.
CustomMappings ==
    {EmptyObject, [mouthFunnel |-> Null], [browInnerUp |-> Null],
     [mouthSmileRight |-> Null], [tongueOut |-> String("Tongue_Out")],
     [jawOpen |-> String("Jaw_Open")]}

\* { ...mappingConfig.mapping, ...customMapping }
ResolveMapping(mapping, customMapping) ==
    [name \in DOMAIN mapping \cup DOMAIN customMapping |->
         IF name \in DOMAIN customMapping THEN customMapping[name]
         ELSE mapping[name]]

\* Morph names of a rig (the keys of morphCache): a CC4 Extended rig, a rig
\* with ARKit-named morphs.
CC4Rig ==
    UNION {{ARKIT_TO_CC4_EXTENDED[name].morphs[k] :
                k \in 1..Len(ARKIT_TO_CC4_EXTENDED[name].morphs)} :
           name \in ArkitNames} \cup {"Tongue_Out", "Jaw_Open"}
ArkitRig == ArkitNames
ArkitMorphCaches == {CC4Rig, ArkitRig}

\* currentFrame.length of the two fixed-order layouts.
FrameLengths == {52, 61}

\* Mutant: the loop does not skip jawOpen.
ExcludedNamesNoJaw(hook) ==
    IF hook = "metahuman"
    THEN {"mouthClose", "tongueOut", "eyeBlinkLeft", "eyeBlinkRight",
          "eyeLookDownLeft", "eyeLookInLeft", "eyeLookOutLeft", "eyeLookUpLeft",
          "eyeLookDownRight", "eyeLookInRight", "eyeLookOutRight",
          "eyeLookUpRight"}
    ELSE {"mouthClose", "tongueOut"}

\* The names the loop skips: the metahuman hook's copy also skips blink and
\* eye look.
ExcludedNames(hook) ==
    IF hook = "metahuman"
    THEN {"jawOpen", "mouthClose", "tongueOut", "eyeBlinkLeft", "eyeBlinkRight",
          "eyeLookDownLeft", "eyeLookInLeft", "eyeLookOutLeft", "eyeLookUpLeft",
          "eyeLookDownRight", "eyeLookInRight", "eyeLookOutRight",
          "eyeLookUpRight"}
    ELSE {"jawOpen", "mouthClose", "tongueOut"}

\* mapping[arkitName] || arkitName
MorphMapping(mapping, arkitName) ==
    IF arkitName \in DOMAIN mapping /\ mapping[arkitName].type # "null"
    THEN mapping[arkitName]
    ELSE String(arkitName)

\* The indices whose value the loop hands to the morph mapping.
GenericIndices(hook, mapping, length) ==
    {i \in 0..(Min(52, length) - 1) :
         /\ ARKIT_ORDER_61[i + 1] \notin ExcludedNames(hook)
         /\ MorphMapping(mapping, ARKIT_ORDER_61[i + 1]).type # "null"}

\* applyMorphValueSmooth writes name when morphCache has it.
MorphWrites(morphCache, index, morphs) ==
    {[index |-> index, morph |-> morphs[k]] :
         k \in {j \in 1..Len(morphs) : morphs[j] \in morphCache}}

\* The tongue: a morph when mapping["tongueOut"] is truthy, else the bones.
TongueWrites(morphCache, mapping) ==
    IF "tongueOut" \in DOMAIN mapping /\ mapping["tongueOut"].type = "string"
    THEN MorphWrites(morphCache, TONGUE_OUT_INDEX, mapping["tongueOut"].morphs)
    ELSE {}

\* applyArkitMapping of the hook: the morph writes it makes, each with the
\* frame index its weight comes from, the indices handed to the morph
\* mapping and the index that drives the jaw bone.
applyArkitMapping(hook, morphCache, mapping, length, jawBone) ==
    LET jawIndex == IF length >= 60 THEN JAW_OPEN_INDEX_61
                    ELSE JAW_OPEN_INDEX_52
        indices == GenericIndices(hook, mapping, length)
    IN  [writes |->
             UNION {MorphWrites(morphCache, i,
                                MorphMapping(mapping, ARKIT_ORDER_61[i + 1]).morphs) :
                    i \in indices}
             \cup TongueWrites(morphCache, mapping),
         generic |-> indices,
         jawBoneFrom |-> IF jawBone THEN {jawIndex} ELSE {}]

\* Values of the frame at the jaw-open index.
JawOpenInputs == {Zero, Rat(3, 5)}

\* A frame is applied through the direct-rename mapping.
CallApplyArkitMapping(mapping, customMapping, morphCache, length, jawOpenInput, jawBone) ==
    /\ call.fn = "none"
    /\ call' = [fn |-> "applyArkitMapping",
                mapping |-> ResolveMapping(mapping, customMapping),
                morphCache |-> morphCache, length |-> length,
                jawOpenInput |-> jawOpenInput, jawBone |-> jawBone]
    /\ result' = applyArkitMapping(variant, morphCache,
                                   ResolveMapping(mapping, customMapping),
                                   length, jawBone)
    /\ UNCHANGED <<schedulerVars, face>>

(***************************************************************************)
(* MetaHuman frames applied to a CC5 rig (useMetahumanLipsync)             *)
(***************************************************************************)
\* The channels the hook leaves to the blinking and pupil-tracking systems.
SkippedChannels ==
    {"CTRL_expressions_eyeBlinkL", "CTRL_expressions_eyeBlinkR",
     "CTRL_expressions_eyeLookDownL", "CTRL_expressions_eyeLookDownR",
     "CTRL_expressions_eyeLookLeftL", "CTRL_expressions_eyeLookLeftR",
     "CTRL_expressions_eyeLookRightL", "CTRL_expressions_eyeLookRightR",
     "CTRL_expressions_eyeLookUpL", "CTRL_expressions_eyeLookUpR"}

\* The name -> value object built from the frame: non-zero channels other
\* than the skipped ones, times fadeInWeight.  currentFrame is given by
\* channel name, i.e. already read through METAHUMAN_ORDER_251.
FrameBlendshapes(currentFrame, fadeInWeight) ==
    [ctrlName \in {n \in DOMAIN currentFrame :
                      currentFrame[n] # Zero /\ n \notin SkippedChannels} |->
         RMul(currentFrame[ctrlName], fadeInWeight)]

\* The modelled morph names for which
\* morphName.includes("JawOpen") || morphName.includes("Jaw_Open") is true.
JawOpenNames == {"C_CornerPullL_JawOpen", "Jaw_Open", "Jaw_Open_Extreme"}

\* Morph names of a CC5 rig: the targets of the rule table.
CC5Rig ==
    {METAHUMAN_TO_CC5_MAPPING[i].target : i \in 1..Len(METAHUMAN_TO_CC5_MAPPING)}

FadeInWeights == {One, Rat(1, 2)}

\* The source channels of the rules writing target.
TargetSources(target) ==
    UNION {{METAHUMAN_TO_CC5_MAPPING[i].source[k] :
                k \in 1..Len(METAHUMAN_TO_CC5_MAPPING[i].source)} :
           i \in {j \in 1..Len(METAHUMAN_TO_CC5_MAPPING) :
                      METAHUMAN_TO_CC5_MAPPING[j].target = target}}

\* applyMetaHumanToCC5 of useMetahumanLipsync: the morph writes it makes,
\* each with the source channels its weight is computed from, and the
\* channel that drives the jaw bone.
applyMetaHumanToCC5(morphCache, smoothedMorphValues, currentFrame, fadeInWeight, jawBone) ==
    LET metahumanBlendshapes == FrameBlendshapes(currentFrame, fadeInWeight)
        cc5Values == convertMetaHumanToCC5(METAHUMAN_TO_CC5_MAPPING,
                                           metahumanBlendshapes, EmptyObject)
        applied == {morphName \in DOMAIN cc5Values :
                       /\ morphName \notin JawOpenNames
                       /\ ~(/\ RLt(cc5Values[morphName], Rat(1, 1000))
                            /\ morphName \notin smoothedMorphValues)
                       /\ morphName \in morphCache}
    IN  [writes |-> {[morph |-> morphName, sources |-> TargetSources(morphName)] :
                        morphName \in applied},
         jawBoneFrom |-> IF jawBone THEN {"CTRL_expressions_jawOpen"} ELSE {}]

\* A MetaHuman frame is applied through the CC5 conversion.
CallApplyMetaHumanToCC5(smoothedMorphValues, currentFrame, fadeInWeight, jawBone) ==
    /\ call.fn = "none"
    /\ variant = "metahuman"
    /\ call' = [fn |-> "applyMetaHumanToCC5",
                smoothedMorphValues |-> smoothedMorphValues,
                currentFrame |-> currentFrame, fadeInWeight |-> fadeInWeight,
                jawBone |-> jawBone]
    /\ result' = applyMetaHumanToCC5(CC5Rig, smoothedMorphValues, currentFrame,
                                     fadeInWeight, jawBone)
    /\ UNCHANGED <<schedulerVars, face>>

(***************************************************************************)
(* MetaHuman direct paths: convertMetaHumanToCC5Direct (1:1 renaming, used  *)
(* by useArkitLipsync) and applyMetaHumanDirect (useMetahumanLipsync)      *)
(***************************************************************************)
\* Entries of METAHUMAN_TO_CC5_DIRECT_MAPPING.
METAHUMAN_TO_CC5_DIRECT_MAPPING ==
    [CTRL_expressions_browDownL |-> "Brow_Down_L",
     CTRL_expressions_browDownR |-> "Brow_Down_R",
     CTRL_expressions_eyeBlinkL |-> "Eye_Blink_L",
     CTRL_expressions_eyeBlinkR |-> "Eye_Blink_R",
     CTRL_expressions_jawOpen |-> "Jaw_Open",
     CTRL_expressions_jawOpenExtreme |-> "Jaw_Open_Extreme",
     CTRL_expressions_mouthFunnelDL |-> "Mouth_Funnel_DL",
     CTRL_expressions_mouthLipsTogetherDL |-> "Mouth_Lips_Together_DL",
     CTRL_expressions_mouthLipsTogetherDR |-> "Mouth_Lips_Together_DR",
     CTRL_expressions_mouthLipsTogetherUL |-> "Mouth_Lips_Together_UL",
     CTRL_expressions_mouthLipsTogetherUR |-> "Mouth_Lips_Together_UR"]

\* The pair of symmetricalPairs among these entries.
symmetricalPairs ==
    << <<"CTRL_expressions_browDownL", "CTRL_expressions_browDownR">> >>

lipTogetherKeys ==
    <<"CTRL_expressions_mouthLipsTogetherDL", "CTRL_expressions_mouthLipsTogetherDR",
      "CTRL_expressions_mouthLipsTogetherUL", "CTRL_expressions_mouthLipsTogetherUR">>

processedKeys ==
    {"CTRL_expressions_eyeBlinkL", "CTRL_expressions_eyeBlinkR"}
    \cup UNION {{symmetricalPairs[i][1], symmetricalPairs[i][2]} :
                   i \in 1..Len(symmetricalPairs)}
    \cup {lipTogetherKeys[i] : i \in 1..Len(lipTogetherKeys)}

\* Frames handed to the direct paths, by channel name.
DirectChannels ==
    {"CTRL_expressions_browDownL", "CTRL_expressions_eyeBlinkL",
     "CTRL_expressions_jawOpen", "CTRL_expressions_jawOpenExtreme",
     "CTRL_expressions_mouthFunnelDL", "CTRL_expressions_mouthLipsTogetherDL",
     "CTRL_expressions_mouthLipsTogetherUL"}
DirectFrames ==
    UNION {[names -> ChannelValues] :
           names \in {n \in SUBSET DirectChannels : Cardinality(n) <= MaxChannels}}

\* The blink step: both eyes get the average when one blinks.
DirectBlink(metahumanBlendshapes, cc5Blendshapes) ==
    LET blinkL == ValueOrZero(metahumanBlendshapes, "CTRL_expressions_eyeBlinkL")
        blinkR == ValueOrZero(metahumanBlendshapes, "CTRL_expressions_eyeBlinkR")
        blinkAvg == RDiv(RAdd(blinkL, blinkR), Rat(2, 1))
    IN  IF RLt(Zero, blinkL) \/ RLt(Zero, blinkR)
        THEN SetKey(SetKey(cc5Blendshapes, "Eye_Blink_L", blinkAvg),
                    "Eye_Blink_R", blinkAvg)
        ELSE cc5Blendshapes

\* The loop over symmetricalPairs, from pair i on.
RECURSIVE DirectPairs(_, _, _)
DirectPairs(metahumanBlendshapes, cc5Blendshapes, i) ==
    IF i > Len(symmetricalPairs) THEN cc5Blendshapes
    ELSE LET leftKey == symmetricalPairs[i][1]
             rightKey == symmetricalPairs[i][2]
             leftValue == ValueOrZero(metahumanBlendshapes, leftKey)
             rightValue == ValueOrZero(metahumanBlendshapes, rightKey)
             avgValue == RDiv(RAdd(leftValue, rightValue), Rat(2, 1))
         IN  DirectPairs(
                 metahumanBlendshapes,
                 IF leftValue = Zero /\ rightValue = Zero THEN cc5Blendshapes
                 ELSE SetKey(SetKey(cc5Blendshapes,
                                    METAHUMAN_TO_CC5_DIRECT_MAPPING[leftKey], avgValue),
                             METAHUMAN_TO_CC5_DIRECT_MAPPING[rightKey], avgValue),
                 i + 1)

\* The loop over lipTogetherKeys, from key i on: value * 0.4.
RECURSIVE DirectLipsTogether(_, _, _)
DirectLipsTogether(metahumanBlendshapes, cc5Blendshapes, i) ==
    IF i > Len(lipTogetherKeys) THEN cc5Blendshapes
    ELSE DirectLipsTogether(
             metahumanBlendshapes,
             IF lipTogetherKeys[i] \in DOMAIN metahumanBlendshapes
             THEN SetKey(cc5Blendshapes,
                         METAHUMAN_TO_CC5_DIRECT_MAPPING[lipTogetherKeys[i]],
                         RMul(metahumanBlendshapes[lipTogetherKeys[i]], Rat(2, 5)))
             ELSE cc5Blendshapes,
             i + 1)

\* The loop over the other entries: non-zero values are renamed.
DirectOthers(metahumanBlendshapes, cc5Blendshapes) ==
    LET keys == {k \in DOMAIN metahumanBlendshapes :
                    /\ k \notin processedKeys
                    /\ metahumanBlendshapes[k] # Zero
                    /\ k \in DOMAIN METAHUMAN_TO_CC5_DIRECT_MAPPING}
    IN  [t \in DOMAIN cc5Blendshapes
              \cup {METAHUMAN_TO_CC5_DIRECT_MAPPING[k] : k \in keys} |->
             IF \E k \in keys : METAHUMAN_TO_CC5_DIRECT_MAPPING[k] = t
             THEN metahumanBlendshapes[
                      CHOOSE k \in keys : METAHUMAN_TO_CC5_DIRECT_MAPPING[k] = t]
             ELSE cc5Blendshapes[t]]

convertMetaHumanToCC5Direct(metahumanBlendshapes) ==
    DirectOthers(
        metahumanBlendshapes,
        DirectLipsTogether(
            metahumanBlendshapes,
            DirectPairs(metahumanBlendshapes,
                        DirectBlink(metahumanBlendshapes, EmptyObject), 1),
            1))

\* A frame is converted by the 1:1 renaming.
CallConvertDirect(metahumanBlendshapes) ==
    /\ call.fn = "none"
    /\ call' = [fn |-> "convertMetaHumanToCC5Direct",
                metahumanBlendshapes |-> metahumanBlendshapes]
    /\ result' = convertMetaHumanToCC5Direct(metahumanBlendshapes)
    /\ UNCHANGED <<schedulerVars, face>>

\* The CTRL expressions applyMetaHumanDirect limits to 0.5.
limitedCTRLExpressions ==
    {"CTRL_expressions_eyeLidPressL", "CTRL_expressions_eyeLidPressR",
     "CTRL_expressions_noseWrinkleUpperL", "CTRL_expressions_noseWrinkleUpperR",
     "CTRL_expressions_mouthStretchLipsCloseL",
     "CTRL_expressions_mouthStretchLipsCloseR",
     "CTRL_expressions_jawOpenExtreme",
     "CTRL_expressions_mouthLipsTogetherUL", "CTRL_expressions_mouthLipsTogetherUR",
     "CTRL_expressions_mouthLipsTogetherDL", "CTRL_expressions_mouthLipsTogetherDR"}

\* The modelled channels whose lower-cased name contains "eye", "brow",
\* "cheek_squint" or "nose_wrinkle".
UpperFaceChannels ==
    {"CTRL_expressions_browDownL", "CTRL_expressions_eyeBlinkL"}

\* The weight applyMetaHumanDirect hands to the smoothing for one channel.
DirectWeight(ctrlName, value, fadeInWeight) ==
    LET weightedValue == RMul(value, fadeInWeight)
        limitedValue == IF ctrlName \in limitedCTRLExpressions
                        THEN RMin(weightedValue, Rat(1, 2))
                        ELSE weightedValue
    IN  IF ctrlName \in UpperFaceChannels
        THEN RMul(limitedValue, Rat(7, 10))
        ELSE limitedValue

\* applyMetaHumanDirect: the target weight of every morph it writes (the
\* rig has a morph for every channel) and whether the jaw bone is driven.
applyMetaHumanDirect(currentFrame, fadeInWeight, jawBone) ==
    LET applied == {ctrlName \in DOMAIN currentFrame :
                       /\ currentFrame[ctrlName] # Zero
                       /\ ~(ctrlName = "CTRL_expressions_jawOpen" /\ jawBone)
                       /\ ctrlName \notin SkippedChannels}
        rawJawValue == RMin(RMul(ValueOrZero(currentFrame, "CTRL_expressions_jawOpen"),
                                 fadeInWeight), Rat(7, 10))
        jawValue == IF RLt(rawJawValue, Rat(3, 10)) THEN rawJawValue
                    ELSE RSub(rawJawValue, Rat(1, 10))
    IN  [weights |-> [ctrlName \in applied |->
                          DirectWeight(ctrlName, currentFrame[ctrlName], fadeInWeight)],
         jawBoneDriven |-> jawBone /\ RLt(Zero, jawValue)]

\* A MetaHuman frame is applied without conversion.
CallApplyMetaHumanDirect(currentFrame, fadeInWeight, jawBone) ==
    /\ call.fn = "none"
    /\ variant = "metahuman"
    /\ call' = [fn |-> "applyMetaHumanDirect", currentFrame |-> currentFrame,
                fadeInWeight |-> fadeInWeight, jawBone |-> jawBone]
    /\ result' = applyMetaHumanDirect(currentFrame, fadeInWeight, jawBone)
    /\ UNCHANGED <<schedulerVars, face>>

(***************************************************************************)
(* Preset lookup: mappingConfig of the hooks and getMapping                *)
(***************************************************************************)
\* Own keys of MAPPING_PRESETS in each hook's file.
MAPPING_PRESETS(hook) ==
    IF hook = "metahuman"
    THEN {"ARKIT_TO_CC_EXTENDED", "ARKIT_TO_RPM", "ARKIT_TO_ARKIT",
          "METAHUMAN_TO_CC5", "METAHUMAN_DIRECT"}
    ELSE {"ARKIT_TO_CC_EXTENDED", "ARKIT_TO_RPM", "ARKIT_TO_ARKIT",
          "METAHUMAN_TO_CC5"}

\* Own keys of the table inside getMapping.
GetMappingKeys ==
    {"ARKIT_TO_CC4_EXTENDED", "ARKIT_TO_CC_EXTENDED", "ARKIT_TO_RPM",
     "ARKIT_TO_ARKIT", "METAHUMAN_TO_CC5"}

\* Names every object literal inherits from Object.prototype; a bracket
\* lookup of one of them yields a function, which is truthy.
ObjectPrototypeKeys == {"constructor", "toString", "hasOwnProperty"}

\* Preset names a caller may pass.
PresetNames ==
    MAPPING_PRESETS("metahuman") \cup GetMappingKeys \cup ObjectPrototypeKeys
    \cup {"", "UNKNOWN", "arkit_to_rpm"}

\* table[name]: the own entry, an inherited member, or undefined.
Lookup(keys, name) ==
    IF name \in keys THEN name
    ELSE IF name \in ObjectPrototypeKeys THEN "inherited"
    ELSE "undefined"

\* The mappingConfig memo of a hook: the preset used and whether
\* console.warn was called.
mappingConfig(hook, mappingPreset) ==
    LET preset == Lookup(MAPPING_PRESETS(hook), mappingPreset)
    IN  IF preset = "undefined"
        THEN [preset |-> "ARKIT_TO_CC_EXTENDED", warned |-> TRUE]
        ELSE [preset |-> preset, warned |-> FALSE]

\* getMapping: mappings[presetName] || null, nothing logged.
getMapping(presetName) ==
    LET mapping == Lookup(GetMappingKeys, presetName)
    IN  [preset |-> IF mapping = "undefined" THEN "null" ELSE mapping,
         warned |-> FALSE]

\* A hook is mounted with a preset name.
CallMappingConfig(mappingPreset) ==
    /\ call.fn = "none"
    /\ call' = [fn |-> "mappingConfig", mappingPreset |-> mappingPreset]
    /\ result' = mappingConfig(variant, mappingPreset)
    /\ UNCHANGED <<schedulerVars, face>>

\* getMapping is called with a preset name.
CallGetMapping(presetName) ==
    /\ call.fn = "none"
    /\ call' = [fn |-> "getMapping", mappingPreset |-> presetName]
    /\ result' = getMapping(presetName)
    /\ UNCHANGED <<schedulerVars, face>>

NextMapping ==
    \/ \E keys \in Curves, x \in CurveInputs : CallEvaluateCurve(keys, x)
    \/ \E rules \in RuleTables, metahumanBlendshapes \in MetahumanBlendshapes,
          options \in ConvertOptions :
           CallConvert(rules, metahumanBlendshapes, options)
    \/ \E mapping \in MappingPresets, customMapping \in CustomMappings,
          morphCache \in ArkitMorphCaches, length \in FrameLengths,
          jawOpenInput \in JawOpenInputs, jawBone \in BOOLEAN :
           CallApplyArkitMapping(mapping, customMapping, morphCache, length,
                                 jawOpenInput, jawBone)
    \/ \E smoothedMorphValues \in {{}, CC5Rig},
          currentFrame \in MetahumanBlendshapes,
          fadeInWeight \in FadeInWeights, jawBone \in BOOLEAN :
           CallApplyMetaHumanToCC5(smoothedMorphValues, currentFrame,
                                   fadeInWeight, jawBone)
    \/ \E metahumanBlendshapes \in DirectFrames :
           CallConvertDirect(metahumanBlendshapes)
    \/ \E mappingPreset \in PresetNames : CallMappingConfig(mappingPreset)
    \/ \E presetName \in PresetNames : CallGetMapping(presetName)
    \/ \E currentFrame \in DirectFrames, fadeInWeight \in FadeInWeights,
          jawBone \in BOOLEAN :
           CallApplyMetaHumanDirect(currentFrame, fadeInWeight, jawBone)

\* The mapping engine keeps no state between calls: a behaviour is one call,
\* made in the hook `variant`.
InitMapping == Init /\ queuePresent

SpecMapping == InitMapping /\ [][NextMapping]_vars

(***************************************************************************)
(* The channel smoother: repeated applyMorphValueSmooth calls on one       *)
(* channel of a rig that has the morph                                     *)
(***************************************************************************)
LIPSYNC_LERP_SPEED == Rat(4, 5)
FADE_OUT_LERP_SPEED == Rat(1, 5)

\* lerpSpeed arguments, target values, weights a slot or the map may hold.
LerpSpeeds == {FADE_OUT_LERP_SPEED, Rat(1, 2), LIPSYNC_LERP_SPEED}
SmoothTargets == {Zero, Rat(1, 2), One}
SlotValues == {Zero, Rat(1, 2), One}

\* animationBlendWeight arguments: the default 0, and values of
\* idleAnimationBlendWeight.current.
BlendWeights == {Zero, Rat(1, 2), Rat(17, 20)}

MaxCalls == 3

\* The target the lerp moves to.  useMetahumanLipsync's function has no
\* animationBlendWeight; useArkitLipsync's reads the slot when the weight
\* is at least 0.01.
BlendedTarget(hook, influence, targetValue, animationBlendWeight) ==
    IF hook = "metahuman" \/ RLt(animationBlendWeight, Rat(1, 100))
    THEN targetValue
    ELSE RAdd(RMul(influence, animationBlendWeight),
              RMul(targetValue, RSub(One, animationBlendWeight)))

\* Whether the call reads the slot of the influences array.
ReadsInfluence(hook, animationBlendWeight) ==
    hook = "arkit" /\ ~RLt(animationBlendWeight, Rat(1, 100))

\* currentValue + (blendedTarget - currentValue) * lerpSpeed
Lerp(currentValue, blendedTarget, lerpSpeed) ==
    RAdd(currentValue, RMul(RSub(blendedTarget, currentValue), lerpSpeed))

\* One call: the value stored in smoothedValues and written to the slot.
applyMorphValueSmooth(hook, currentValue, influence, targetValue, lerpSpeed, animationBlendWeight) ==
    Lerp(currentValue,
         BlendedTarget(hook, influence, targetValue, animationBlendWeight),
         lerpSpeed)

\* The smoother is called again with the same target, rate and weight.
CallSmooth ==
    /\ call.fn = "applyMorphValueSmooth"
    /\ call.calls < MaxCalls
    /\ LET newValue == applyMorphValueSmooth(variant, result.smoothed,
                            result.influence, call.targetValue,
                            call.lerpSpeed, call.animationBlendWeight)
       IN  result' = [smoothed |-> newValue, influence |-> newValue,
                      previous |-> result.smoothed,
                      read |-> ReadsInfluence(variant, call.animationBlendWeight)]
    /\ call' = [call EXCEPT !.calls = call.calls + 1]
    /\ UNCHANGED <<schedulerVars, face>>

\* Between two calls another writer of the influences array (applyBlinking
\* for the blink morphs, the animation system) sets the slot.
SlotWritten(value) ==
    /\ call.fn = "applyMorphValueSmooth"
    /\ call.calls < MaxCalls
    /\ result.influence = result.smoothed
    /\ value # result.influence
    /\ result' = [result EXCEPT !.influence = value]
    /\ UNCHANGED <<call, schedulerVars, face>>

NextSmooth ==
    \/ CallSmooth
    \/ \E value \in SlotValues : SlotWritten(value)

\* A channel with a smoothed value, its slot holding the value written
\* last, and the arguments of the calls to come.
InitSmooth ==
    /\ InitScheduler
    /\ queuePresent
    /\ \E targetValue \in SmoothTargets, lerpSpeed \in LerpSpeeds,
          animationBlendWeight \in BlendWeights :
           call = [fn |-> "applyMorphValueSmooth", targetValue |-> targetValue,
                   lerpSpeed |-> lerpSpeed,
                   animationBlendWeight |-> animationBlendWeight, calls |-> 0]
    /\ \E value \in SlotValues :
           result = [smoothed |-> value, influence |-> value,
                     previous |-> value, read |-> FALSE]
    /\ face = NoFace

SpecSmooth == InitSmooth /\ [][NextSmooth]_vars

(***************************************************************************)
(* The face: what a render frame does to the morph slots (applyBlinking,   *)
(* resetToNeutral, the smoothed frame values)                              *)
(***************************************************************************)
BLINK_MORPHS == {"Eye_Blink_L", "Eye_Blink_R"}
BLINK_DURATION == 200
BLINK_MIN_INTERVAL == 1000
BLINK_MAX_INTERVAL == 5000

\* Morph names of the rig's meshes.
FaceMorphs == BLINK_MORPHS \cup {"Mouth_Smile_L"}

\* Keys of morphCacheRef.current: a rig with and one without blink morphs.
MorphCaches == {FaceMorphs, {"Mouth_Smile_L"}}

\* mappingConfig.sourceFormat of the mounted hook.
SourceFormats == {"arkit", "metahuman", "metahuman_direct"}

\* A JS number that is not a number: what arithmetic on undefined yields.
NaN == <<0, 0>>

isNaN(x) == x[2] = 0

JAW_LERP_SPEED == Rat(4, 5)

\* The refs after the initialization effect ran.  The jaw rotation is kept
\* in units of JAW_CONFIG.ROTATION_RANGE above JAW_CONFIG.CLOSED_ROTATION;
\* jawBone tells whether the rig has a jaw bone.
InitialFace(morphCache, sourceFormat, jawBone) ==
    [morphCache |-> morphCache,
     sourceFormat |-> sourceFormat,
     jawBone |-> jawBone,
     currentJawRotation |-> Zero,
     influences |-> [name \in morphCache |-> Zero],
     smoothedMorphValues |-> EmptyObject,
     blinkState |-> [isBlinking |-> FALSE, value |-> Zero, nextBlinkTime |-> 0],
     idleAnimationBlendWeight |-> One,
     read |-> {},
     neutralised |-> {},
     frame |-> EmptyObject]

\* smoothedValues.get(name) || 0
SmoothedValue(f, name) ==
    IF name \in DOMAIN f.smoothedMorphValues THEN f.smoothedMorphValues[name]
    ELSE Zero

\* applyBlinking's update of blinkState; interval is the value randInt draws.
BlinkStep(blinkState, currentTime, deltaMs, interval) ==
    LET started == IF currentTime >= blinkState.nextBlinkTime /\ ~blinkState.isBlinking
                   THEN [blinkState EXCEPT !.isBlinking = TRUE,
                                           !.nextBlinkTime = currentTime + BLINK_DURATION]
                   ELSE blinkState
        ended == IF started.isBlinking /\ currentTime >= started.nextBlinkTime
                 THEN [started EXCEPT !.isBlinking = FALSE,
                                      !.nextBlinkTime = currentTime + interval]
                 ELSE started
        blinkTarget == IF ended.isBlinking THEN One ELSE Zero
    IN  [ended EXCEPT !.value =
             Lerp(ended.value, blinkTarget, RMin(One, Rat(deltaMs * 15, 1000)))]

\* applyBlinking: blinkState, and applyMorphValue on the two blink morphs.
applyBlinking(f, currentTime, deltaMs, interval) ==
    LET blinkState == BlinkStep(f.blinkState, currentTime, deltaMs, interval)
    IN  [f EXCEPT !.blinkState = blinkState,
                  !.influences = [name \in f.morphCache |->
                                      IF name \in BLINK_MORPHS THEN blinkState.value
                                      ELSE f.influences[name]],
                  !.read = {},
                  !.neutralised = {},
                  !.frame = EmptyObject]

\* Mutant: the morphs are zeroed at once.
NeutralValueInstant(currentValue, lerpSpeed) == Zero

\* applyMorphValueSmooth(..., 0, lipsyncLerpSpeed) of resetToNeutral.
NeutralValue(currentValue, lerpSpeed) ==
    applyMorphValueSmooth("metahuman", currentValue, Zero, Zero, lerpSpeed, Zero)

\* Mutant: the pass goes over the blink morphs as well.
NeutralMorphsAll(morphCache) == morphCache

\* The morphs resetToNeutral goes over.
NeutralMorphs(morphCache) == morphCache \ BLINK_MORPHS

\* jawValueToRotation: the jaw value clamped to [0, 1].
jawValueToRotation(jawValue) == RMax(Zero, RMin(One, jawValue))

\* currentRotation + (targetRotation - currentRotation) * lerpSpeed in JS
\* arithmetic: an operand that is undefined or NaN makes the result NaN.
JawLerp(currentRotation, targetRotation, lerpSpeed) ==
    IF isNaN(currentRotation) \/ isNaN(lerpSpeed) THEN NaN
    ELSE Lerp(currentRotation, targetRotation, lerpSpeed)

\* applyJawBoneSmooth; lerpSpeed is NaN when the caller passed none.
applyJawBoneSmooth(f, jawValue, lerpSpeed) ==
    IF ~f.jawBone THEN f
    ELSE [f EXCEPT !.currentJawRotation =
              JawLerp(f.currentJawRotation, jawValueToRotation(jawValue), lerpSpeed)]

\* resetToNeutral: the pass over morphCache, then the jaw.
resetToNeutral(f, lipsyncLerpSpeed, jawLerpSpeed) ==
    LET names == NeutralMorphs(f.morphCache)
        newValue(name) == NeutralValue(SmoothedValue(f, name), lipsyncLerpSpeed)
        g == applyJawBoneSmooth(f, Zero, jawLerpSpeed)
    IN  [g EXCEPT !.smoothedMorphValues =
                      [name \in DOMAIN f.smoothedMorphValues \cup names |->
                           IF name \in names THEN newValue(name)
                           ELSE f.smoothedMorphValues[name]],
                  !.influences = [name \in f.morphCache |->
                                      IF name \in names THEN newValue(name)
                                      ELSE f.influences[name]],
                  !.neutralised = names]

\* The frame applications that pass over a channel whose value in the frame
\* is 0 or missing ("if (!value) return"): applyMetaHumanToCC5 of
\* useArkitLipsync, whose conversion emits no key for it, and
\* applyMetaHumanDirect of useMetahumanLipsync.  applyArkitMapping takes
\* currentFrame[i] || 0, and the rule table of convertMetaHumanToCC5 writes
\* every target on every frame.
SkipsZero(hook, sourceFormat) ==
    \/ hook = "arkit" /\ sourceFormat = "metahuman"
    \/ hook = "metahuman" /\ sourceFormat = "metahuman_direct"

\* The weights a frame may hand to the smoother, by morph: the frame
\* application of useMetahumanLipsync skips the blink channels.
FrameTargets(hook, sourceFormat) ==
    LET names == IF hook = "metahuman" THEN {"Mouth_Smile_L"}
                 ELSE {"Eye_Blink_L", "Mouth_Smile_L"}
    IN  IF SkipsZero(hook, sourceFormat)
        THEN UNION {[driven -> {One}] : driven \in SUBSET names}
        ELSE [names -> {Zero, One}]

\* The animationBlendWeight the frame application hands to the smoother.
FrameBlendWeight(hook, f) ==
    IF hook = "arkit" /\ f.sourceFormat = "metahuman"
    THEN f.idleAnimationBlendWeight
    ELSE Zero

\* applyMetaHumanToCC5: "if (value < 0.001 && !hasExistingValue) continue".
NothingToLerp(f, targets, name) ==
    /\ f.sourceFormat = "metahuman"
    /\ targets[name] = Zero
    /\ name \notin DOMAIN f.smoothedMorphValues

\* The frame's weights are smoothed into the slots the rig has.
applyFrame(hook, f, targets) ==
    LET names == {name \in DOMAIN targets \cap f.morphCache :
                      ~NothingToLerp(f, targets, name)}
        weight == FrameBlendWeight(hook, f)
        newValue(name) ==
            applyMorphValueSmooth(hook, SmoothedValue(f, name), f.influences[name],
                                  targets[name], LIPSYNC_LERP_SPEED, weight)
    IN  [f EXCEPT !.smoothedMorphValues =
                      [name \in DOMAIN f.smoothedMorphValues \cup names |->
                           IF name \in names THEN newValue(name)
                           ELSE f.smoothedMorphValues[name]],
                  !.influences = [name \in f.morphCache |->
                                      IF name \in names THEN newValue(name)
                                      ELSE f.influences[name]],
                  !.read = IF ReadsInfluence(hook, weight) THEN names ELSE {},
                  !.frame = targets]

\* The jaw values the frame application derives from a frame.
FrameJawValues == {Zero, Rat(1, 2)}

\* The jaw bone part of the frame application.  applyMetaHumanDirect
\* smooths the jaw only for jawValue > 0, and useMetahumanLipsync calls
\* applyMetaHumanToCC5 after it; the other paths smooth the jaw once.
applyFrameJaw(hook, f, jawValue) ==
    IF hook = "metahuman" /\ f.sourceFormat = "metahuman_direct"
    THEN applyJawBoneSmooth(
             IF RLt(Zero, jawValue)
             THEN applyJawBoneSmooth(f, jawValue, JAW_LERP_SPEED) ELSE f,
             jawValue, JAW_LERP_SPEED)
    ELSE applyJawBoneSmooth(f, jawValue, JAW_LERP_SPEED)

\* idleAnimationBlendWeight.current of useArkitLipsync moves 15% of the way
\* to target.
BlendToward(hook, f, target) ==
    IF hook = "arkit"
    THEN [f EXCEPT !.idleAnimationBlendWeight =
              Lerp(f.idleAnimationBlendWeight, target, Rat(15, 100))]
    ELSE f

\* The face after a useFrame call that returned on the path `outcome`.
FaceFrame(hook, f, outcome, currentTime, deltaMs, interval, targets, jawValue) ==
    LET blinked == applyBlinking(f, currentTime, deltaMs, interval)
    IN  CASE outcome = "noQueue" -> blinked
          [] outcome = "idle" ->
                resetToNeutral(BlendToward(hook, blinked, One),
                               FADE_OUT_LERP_SPEED, FADE_OUT_LERP_SPEED)
          [] outcome = "emptyStop" ->
                \* the call passes nine arguments: jawLerpSpeed is undefined
                resetToNeutral(blinked, LIPSYNC_LERP_SPEED, NaN)
          [] outcome = "emptyHold" -> blinked
          [] outcome = "applied" ->
                applyFrameJaw(hook,
                              applyFrame(hook, BlendToward(hook, blinked, Zero), targets),
                              jawValue)
          [] OTHER -> BlendToward(hook, blinked, Zero)

\* The face part of the useFrame call that is this step.
FaceStep ==
    \E interval \in {BLINK_MIN_INTERVAL, BLINK_MAX_INTERVAL},
       targets \in FrameTargets(variant, face.sourceFormat),
       jawValue \in FrameJawValues :
        face' = FaceFrame(variant, face, tickOutcome', wallClock - WallEpoch,
                          wallClock - WallEpoch - renderClock, interval, targets,
                          jawValue)

\* The whole useFrame callbacks.
useFrameMetahumanFace == SchedulerFrameMetahuman /\ FaceStep
useFrameArkitFace == SchedulerFrameArkit /\ FaceStep

\* The size of the frame batch the client delivers.
FaceBatch == 17

\* The mounted hook with its face, render frames SlowInterval apart.
NextFace ==
    \/ ElapseSlow
    \/ useFrameMetahumanFace
    \/ useFrameArkitFace
    \/ BlendshapesEvent(Fill(FaceBatch, ValidKind))
    \/ StatsEvent
    \/ SpeakingChange

InitFace ==
    /\ InitScheduler
    /\ call = [fn |-> "none"]
    /\ result = 0
    /\ \E morphCache \in MorphCaches, sourceFormat \in SourceFormats,
          jawBone \in BOOLEAN :
           face = InitialFace(morphCache, sourceFormat, jawBone)

SpecFace == InitFace /\ [][NextFace]_vars

(***************************************************************************)
(* Head and pupil tracking: the useFrame callbacks of useMhaHeadTracking,  *)
(* usePupilTracking and useMetahumanPupilTracking                          *)
(***************************************************************************)
TrackingHooks == {"useMhaHeadTracking", "usePupilTracking", "useMetahumanPupilTracking"}

\* The keys of MORPH_TARGETS (the same in both pupil hooks).
MorphTargetKeys ==
    {"lookUpLeft", "lookUpRight", "lookDownLeft", "lookDownRight",
     "lookOutLeft", "lookInLeft", "lookInRight", "lookOutRight"}

\* MORPH_TARGETS of a pupil hook.
MORPH_TARGETS(hook) ==
    IF hook = "usePupilTracking"
    THEN [lookUpLeft |-> "A06_Eye_Look_Up_Left", lookUpRight |-> "A07_Eye_Look_Up_Right",
          lookDownLeft |-> "A08_Eye_Look_Down_Left",
          lookDownRight |-> "A09_Eye_Look_Down_Right",
          lookOutLeft |-> "A10_Eye_Look_Out_Left", lookInLeft |-> "A11_Eye_Look_In_Left",
          lookInRight |-> "A12_Eye_Look_In_Right",
          lookOutRight |-> "A13_Eye_Look_Out_Right"]
    ELSE [lookUpLeft |-> "CTRL_expressions_eyeLookUpL",
          lookUpRight |-> "CTRL_expressions_eyeLookUpR",
          lookDownLeft |-> "CTRL_expressions_eyeLookDownL",
          lookDownRight |-> "CTRL_expressions_eyeLookDownR",
          lookOutLeft |-> "CTRL_expressions_eyeLookOutL",
          lookInLeft |-> "CTRL_expressions_eyeLookInL",
          lookInRight |-> "CTRL_expressions_eyeLookInR",
          lookOutRight |-> "CTRL_expressions_eyeLookOutR"]

\* The bones the initialization effect found.
TrackingBones(hook) ==
    IF hook = "useMhaHeadTracking"
    THEN {{"head", "neck1", "neck2", "spine"}, {"head"}, {"neck1", "spine"}}
    ELSE {{"leftEye", "rightEye", "head"}, {"leftEye", "rightEye"}, {"leftEye", "head"}}

\* meshRef.current: absent, a mesh that is no skinned mesh, a skinned mesh
\* whose skeleton lacks the eye bones, a skinned mesh of the skeleton; and
\* the look morphs in its morphTargetDictionary.
TrackingMeshes(hook) ==
    IF hook = "useMhaHeadTracking"
    THEN {[kind |-> "none", dict |-> {}]}
    ELSE {[kind |-> "none", dict |-> {}], [kind |-> "mesh", dict |-> {}],
          [kind |-> "skinnedOther", dict |-> MorphTargetKeys],
          [kind |-> "skinned", dict |-> {}],
          [kind |-> "skinned", dict |-> {"lookOutLeft", "lookUpRight"}],
          [kind |-> "skinned", dict |-> MorphTargetKeys]}

\* options = { ...DEFAULT_CONFIG, ...config }, with the weights the
\* tracking weight moves to (the pupil hooks fix them to 1.0 and 0.5).
TrackingOptions(hook) ==
    IF hook = "useMhaHeadTracking"
    THEN {[enabled |-> TRUE, lerpSpeed |-> Rat(2, 25), speakingWeight |-> Rat(7, 10),
           idleWeight |-> Rat(1, 2)],
          [enabled |-> TRUE, lerpSpeed |-> One, speakingWeight |-> One,
           idleWeight |-> Zero],
          [enabled |-> FALSE, lerpSpeed |-> Rat(2, 25), speakingWeight |-> Rat(7, 10),
           idleWeight |-> Rat(1, 2)]}
    ELSE {[enabled |-> TRUE, lerpSpeed |-> Rat(1, 5), speakingWeight |-> One,
           idleWeight |-> Rat(1, 2)],
          [enabled |-> TRUE, lerpSpeed |-> One, speakingWeight |-> One,
           idleWeight |-> Rat(1, 2)],
          [enabled |-> FALSE, lerpSpeed |-> Rat(1, 5), speakingWeight |-> One,
           idleWeight |-> Rat(1, 2)]}

\* The clamped, normalized gaze angles of a render frame with the target in
\* view.
GazeTargets ==
    {[leftH |-> Rat(0 - 1, 1), leftV |-> One, rightH |-> One, rightV |-> Rat(0 - 1, 2)],
     [leftH |-> Rat(1, 2), leftV |-> Rat(0 - 1, 1), rightH |-> Rat(0 - 1, 2), rightV |-> One]}
NoGaze == [leftH |-> Zero, leftV |-> Zero, rightH |-> Zero, rightV |-> Zero]

MaxTicks == 3

\* targetWeight
TargetWeight(options, isInView, speaking) ==
    IF isInView
    THEN IF speaking THEN options.speakingWeight ELSE options.idleWeight
    ELSE Zero

\* Mutant: the weight is not lerped, the step is added.
TrackingWeightAdded(weight, targetWeight, lerpSpeed) ==
    RAdd(weight, RMul(targetWeight, lerpSpeed))

\* trackingWeight.current += (targetWeight - trackingWeight.current) * lerpSpeed
TrackingWeight(weight, targetWeight, lerpSpeed) ==
    Lerp(weight, targetWeight, lerpSpeed)

\* gazeDirection.current.left / right after the smoothing.
SmoothGaze(gaze, target, lerpSpeed) ==
    [leftH |-> Lerp(gaze.leftH, target.leftH, lerpSpeed),
     leftV |-> Lerp(gaze.leftV, target.leftV, lerpSpeed),
     rightH |-> Lerp(gaze.rightH, target.rightH, lerpSpeed),
     rightV |-> Lerp(gaze.rightV, target.rightV, lerpSpeed)]

\* Math.max(0, x)
PositivePart(x) == RMax(Zero, x)
Neg(x) == RSub(Zero, x)

\* leftLookLeftAmount ... rightLookDownAmount, by the key they are set on.
LookAmounts(gaze) ==
    [lookOutLeft |-> PositivePart(Neg(gaze.leftH)),
     lookInLeft |-> PositivePart(gaze.leftH),
     lookUpLeft |-> PositivePart(gaze.leftV),
     lookDownLeft |-> PositivePart(Neg(gaze.leftV)),
     lookInRight |-> PositivePart(Neg(gaze.rightH)),
     lookOutRight |-> PositivePart(gaze.rightH),
     lookUpRight |-> PositivePart(gaze.rightV),
     lookDownRight |-> PositivePart(Neg(gaze.rightV))]

\* The refs of a tracking hook after its initialization effect.
InitialTracking ==
    [trackingWeight |-> Zero, previousWeight |-> Zero, gaze |-> NoGaze,
     influences |-> EmptyObject, rotated |-> {}, morphBranch |-> FALSE,
     threw |-> FALSE]

\* The useFrame callback of useMhaHeadTracking.
HeadFrame(c, t, isInView, speaking) ==
    IF ~c.options.enabled \/ "head" \notin c.bones
    THEN [t EXCEPT !.rotated = {}, !.previousWeight = t.trackingWeight]
    ELSE [t EXCEPT !.previousWeight = t.trackingWeight,
                   !.trackingWeight =
                       TrackingWeight(t.trackingWeight,
                                      TargetWeight(c.options, isInView, speaking),
                                      c.options.lerpSpeed),
                   !.rotated = {"head"} \cup (c.bones \cap {"neck1", "neck2"})]

\* The useFrame callback of the pupil hooks.  useMetahumanPupilTracking
\* reads leftH, leftV, rightH and rightV in the morph branch without
\* declaring them: the callback ends there with a ReferenceError.
PupilFrame(c, t, isInView, speaking, target) ==
    IF ~c.options.enabled \/ ~({"leftEye", "rightEye"} \subseteq c.bones)
    THEN [t EXCEPT !.rotated = {}, !.previousWeight = t.trackingWeight,
                   !.morphBranch = FALSE, !.threw = FALSE]
    ELSE LET weight == TrackingWeight(t.trackingWeight,
                                      TargetWeight(c.options, isInView, speaking),
                                      c.options.lerpSpeed)
             gaze == SmoothGaze(t.gaze, IF isInView THEN target ELSE NoGaze,
                                c.options.lerpSpeed)
             morphBranch == c.mesh.kind = "skinned"
             declared == c.hook = "usePupilTracking"
             amounts == LookAmounts(gaze)
             written == {MORPH_TARGETS(c.hook)[key] : key \in c.mesh.dict}
             keyOf(name) == CHOOSE key \in c.mesh.dict : MORPH_TARGETS(c.hook)[key] = name
         IN  [t EXCEPT !.previousWeight = t.trackingWeight,
                       !.trackingWeight = weight,
                       !.gaze = gaze,
                       !.rotated = {"leftEye", "rightEye"},
                       !.morphBranch = morphBranch,
                       !.threw = morphBranch /\ ~declared,
                       !.influences =
                           IF morphBranch /\ declared
                           THEN [name \in written |-> RMul(amounts[keyOf(name)], weight)]
                           ELSE t.influences]

\* The render loop calls the hook's useFrame callback.
TrackingFrame(isInView, speaking, target) ==
    /\ call.fn = "trackingFrame"
    /\ call.ticks < MaxTicks
    /\ call' = [call EXCEPT !.ticks = call.ticks + 1, !.isInView = isInView,
                            !.isSpeaking = speaking]
    /\ result' = IF call.hook = "useMhaHeadTracking"
                 THEN HeadFrame(call, result, isInView, speaking)
                 ELSE PupilFrame(call, result, isInView, speaking, target)
    /\ UNCHANGED <<schedulerVars, face>>

NextTracking ==
    \E isInView \in BOOLEAN, speaking \in BOOLEAN, target \in GazeTargets :
        TrackingFrame(isInView, speaking, target)

\* A tracking hook mounted on a character.
InitTracking ==
    /\ InitScheduler
    /\ queuePresent
    /\ variant = "metahuman"
    /\ \E hook \in TrackingHooks :
         \E bones \in TrackingBones(hook), mesh \in TrackingMeshes(hook),
            options \in TrackingOptions(hook) :
             call = [fn |-> "trackingFrame", hook |-> hook, bones |-> bones,
                     mesh |-> mesh, options |-> options, ticks |-> 0,
                     isInView |-> FALSE, isSpeaking |-> FALSE]
    /\ result = InitialTracking
    /\ face = NoFace

SpecTracking == InitTracking /\ [][NextTracking]_vars

(***************************************************************************)
(* Claims                                                                  *)
(***************************************************************************)
\* A render frame of the mounted hook.
FrameStep == useFrameMetahuman \/ useFrameArkit

\* A step that starts playback.
StartStep == ~playbackState.isPlaying /\ playbackState'.isPlaying

\* C1: on a render frame where playback is running, isDraining is set and
\* the buffered frames are consumed (the queue has no frames, or the
\* computed frame index is at the last available index), playback stops on
\* that frame: isPlaying becomes false, the queue is reset and the
\* "stopped" notification (setIsPlaying(false)) is issued.
C1_DrainedFrameStops ==
    [][(/\ FrameStep
        /\ queuePresent
        /\ playbackState.isPlaying
        /\ playbackState.isDraining
        /\ (Len(frames) = 0 \/ tickFrameIndex' >= Len(frames) - 1))
       => (/\ ~playbackState'.isPlaying
           /\ frames' = <<>>
           /\ notified' = "stopped"
           /\ ~uiIsPlaying')]_vars

\* C1 witness: a frame stopped a draining playback at the last index.
C1_Witness ==
    /\ tickOutcome = "endStop"
    /\ tickFrameIndex >= FRAME_OFFSET
    /\ ~playbackState.isPlaying
    /\ notified = "stopped"

\* C2: the "stopped" notification is issued by exactly the steps that take
\* playback from running to idle: once per utterance, and never by a step
\* taken while playback is already idle.
C2_StoppedOncePerUtterance ==
    [][(notified' = "stopped")
       <=> (playbackState.isPlaying /\ ~playbackState'.isPlaying)]_vars

\* C2 witness: a later utterance (one started after the clock moved) has
\* just been stopped and notified.
C2_Witness ==
    /\ notified = "stopped"
    /\ ~uiIsPlaying
    /\ playbackState.startTime \notin {0, WallEpoch}

\* C3: while isDraining is false no render frame stops playback: isPlaying
\* stays true, the queue is not reset and no "stopped" notification is
\* issued, also when the frames are exhausted.
C3_HoldWhenNotDraining ==
    [][(FrameStep /\ playbackState.isPlaying /\ ~playbackState.isDraining)
       => (/\ playbackState'.isPlaying
           /\ frames' = frames
           /\ uiIsPlaying' = uiIsPlaying
           /\ notified' # "stopped")]_vars

\* C3 witness: a frame found the queue empty and held.
C3_Witness ==
    /\ tickOutcome = "emptyHold"
    /\ playbackState.isPlaying
    /\ ~playbackState.isDraining

\* C4: when playback is not running, a "blendshapes" event while the
\* conversation is active, or the speaking flag becoming true, starts
\* playback, and the start sets startTime to the current render-clock
\* time, currentFrameIndex to 0, isDraining to false and fadeInWeight to 0.
C4_StartResetsState ==
    [][/\ ((\E batch \in Batches : BlendshapesEvent(batch))
           /\ queuePresent /\ conversationActive
           /\ ~playbackState.isPlaying) => playbackState'.isPlaying
       /\ (SpeakingChange /\ ~isSpeaking /\ ~playbackState.isPlaying)
            => playbackState'.isPlaying
       /\ StartStep => (/\ playbackState'.startTime = renderClock
                        /\ playbackState'.currentFrameIndex = 0
                        /\ ~playbackState'.isDraining
                        /\ playbackState'.fadeInWeight = 0)]_vars

\* C5: a render frame that fetches a frame uses an index within
\* 0 .. frames.length - 1.
C5_FetchWithinBuffer ==
    tickOutcome \in {"invalid", "applied"}
        => (0 <= tickFrameIndex /\ tickFrameIndex <= Len(frames) - 1)

\* C5 witness: a frame was applied at an index the clamp had to lower.
C5_Witness ==
    /\ tickOutcome = "applied"
    /\ tickFrameIndex = Len(frames) - 1
    /\ tickFrameIndex < FRAME_OFFSET

\* C6: within one utterance (startTime fixed, the buffer only growing) the
\* frame index applied on successive render frames never decreases.
C6_AppliedIndexMonotonic ==
    [][(/\ playbackState.isPlaying
        /\ playbackState'.isPlaying
        /\ playbackState'.startTime = playbackState.startTime
        /\ tickOutcome' = "applied")
       => playbackState'.currentFrameIndex >= playbackState.currentFrameIndex]_vars

\* C7 as stated: a render frame that finds an invalid frame leaves the
\* whole PlaybackState (isPlaying, startTime, currentFrameIndex, isDraining,
\* fadeInWeight) as it was.
C7_InvalidFrameLeavesState ==
    [][(FrameStep /\ tickOutcome' = "invalid")
       => PlaybackFields(playbackState') = PlaybackFields(playbackState)]_vars

\* The clock reading the mounted hook subtracts startTime from, as of the
\* state after a render frame.
FrameNow == IF variant = "arkit" THEN wallClock ELSE renderClock

\* C7 amended: a render frame that finds an invalid frame applies nothing
\* and leaves isPlaying, startTime, currentFrameIndex and isDraining as
\* they were; fadeInWeight is recomputed from the elapsed time as on every
\* playing frame; the queue is untouched and nothing is notified.
C7_InvalidFrameKeepsPlayback ==
    [][(FrameStep /\ tickOutcome' = "invalid")
       => (/\ playbackState'.isPlaying = playbackState.isPlaying
           /\ playbackState'.isPlaying
           /\ playbackState'.startTime = playbackState.startTime
           /\ playbackState'.currentFrameIndex = playbackState.currentFrameIndex
           /\ playbackState'.isDraining = playbackState.isDraining
           /\ playbackState'.fadeInWeight
                = FadeInWeight(FrameNow' - playbackState.startTime)
           /\ frames' = frames
           /\ notified' = "none")]_vars

\* C7 witness: an invalid frame was met after the fade-in had begun.
C7_Witness ==
    /\ tickOutcome = "invalid"
    /\ playbackState.fadeInWeight > 0
    /\ playbackState.isPlaying

\* The readings Date.now() can give at a second delivery of an event.
LaterClocks == {wallClock} \cup {wallClock + d : d \in Deltas}

\* C8: the event handlers are idempotent: a second delivery of the same
\* event, with no render frame in between, leaves PlaybackState as the
\* first delivery left it; a "blendshapes" event during playback keeps
\* startTime and currentFrameIndex; no handler computes a frame index
\* (currentFrameIndex is kept or reset to 0).
C8_HandlersIdempotent ==
    LET st == playbackState
        blend == OnBlendshapes(st, wallClock)
        stats == handleStatsReceived(st)
    IN  /\ \A t \in LaterClocks : OnBlendshapes(blend, t) = blend
        /\ \A b \in BOOLEAN : \A t \in LaterClocks :
              LET spoke == OnSpeaking(st, b, wallClock)
              IN  /\ OnSpeaking(spoke, b, t) = spoke
                  /\ spoke.currentFrameIndex \in {0, st.currentFrameIndex}
        /\ handleStatsReceived(stats) = stats
        /\ stats.currentFrameIndex = st.currentFrameIndex
        /\ blend.currentFrameIndex \in {0, st.currentFrameIndex}
        /\ st.isPlaying => (/\ blend.startTime = st.startTime
                            /\ blend.currentFrameIndex = st.currentFrameIndex)

\* C8 witness: the stats handler has run during a playback that had
\* already applied a frame beyond index 0.
C8_Witness ==
    /\ playbackState.isPlaying
    /\ playbackState.isDraining
    /\ playbackState.currentFrameIndex > 0
    /\ conversationActive

\* C9: once the component is unmounted no handler of it is subscribed on
\* the client, and no later step changes its PlaybackState.
C9_UnmountUnsubscribes ==
    [][~mounted' => (/\ subscribed' = {}
                     /\ ~mounted => playbackState' = playbackState)]_vars

\* C9 witness: after the unmount the speaking flag became true, frames
\* arrived in an active conversation, and playback was never started.
C9_Witness ==
    /\ ~mounted
    /\ variant = "arkit"
    /\ isSpeaking
    /\ conversationActive
    /\ Len(frames) > 0
    /\ playbackState = InitialPlaybackState

\* C10: in every hook, startTime and the "now" of a render frame are both
\* readings of the renderer's clock: a start stores the render clock in
\* startTime, and the elapsed time of a playing frame is the render clock
\* minus startTime.  (The fade-in weight is the value that elapsed time is
\* stored in; within the bounds it is below the clamp.)
C10_RenderClockOnly ==
    [][/\ StartStep => (/\ playbackState'.startTime \in {renderClock, worldClockTimeRef}
                        /\ playbackState'.startTime # wallClock)
       /\ (FrameStep /\ tickFrameIndex' >= 0)
            => playbackState'.fadeInWeight
                 = FadeInWeight(renderClock' - playbackState.startTime)]_vars

LinearAt(keys, x) ==
    LET i == CHOOSE j \in 1..(Len(keys) - 1) :
                 /\ RLe(keys[j].time, x) /\ RLe(x, keys[j + 1].time)
                 /\ \A h \in 1..(j - 1) :
                        ~(RLe(keys[h].time, x) /\ RLe(x, keys[h + 1].time))
    IN  IF keys[i].time = keys[i + 1].time THEN keys[i].value
        ELSE RAdd(keys[i].value,
                  RDiv(RMul(RSub(keys[i + 1].value, keys[i].value),
                            RSub(x, keys[i].time)),
                       RSub(keys[i + 1].time, keys[i].time)))

SourceValues(source, frame) ==
    [i \in 1..Len(source) |->
         IF source[i] \in DOMAIN frame THEN frame[source[i]] ELSE Zero]

RECURSIVE ProductOf(_)
ProductOf(values) ==
    IF values = <<>> THEN One
    ELSE RMul(Head(values), ProductOf(Tail(values)))

IsConvertCall == call.fn = "convertMetaHumanToCC5"

\* The frame of the call gives exactly channels a and b, with values va, vb.
FrameIs(a, va, b, vb) ==
    /\ DOMAIN call.metahumanBlendshapes = {a, b}
    /\ call.metahumanBlendshapes[a] = va
    /\ call.metahumanBlendshapes[b] = vb

\* C14: the pre-curve value of every 'Add' rule is the product of all its
\* source values, an absent source counting as 0; sources 0.7 and 0.7 give
\* 0.49.
C14_AddIsProduct ==
    IsConvertCall
    => /\ \A i \in 1..Len(call.rules) :
             call.rules[i].mode = "Add"
             => result.preCurve[i] =
                    ProductOf(SourceValues(call.rules[i].source,
                                           call.metahumanBlendshapes))
       /\ (/\ call.rules = METAHUMAN_TO_CC5_MAPPING
           /\ FrameIs("CTRL_expressions_mouthCornerPullL", Rat(7, 10),
                      "CTRL_expressions_mouthCornerPullR", Rat(7, 10)))
          => result.cc5Blendshapes["C_CornerPullL_CornerPullR"] = Rat(49, 100)

C14_Witness ==
    /\ IsConvertCall
    /\ call.rules = METAHUMAN_TO_CC5_MAPPING
    /\ FrameIs("CTRL_expressions_mouthCornerPullL", Rat(7, 10),
               "CTRL_expressions_mouthCornerPullR", Rat(7, 10))
    /\ result.preCurve[2] = Rat(49, 100)
    /\ result.preCurve[3] = Zero

\* C15: a 'Limit' rule takes its first source as ceiling, caps every later
\* source at it and multiplies the capped values (a single source passes
\* through); for inputs in [0, 1] the value never exceeds the first source;
\* 0.3 with 0.8, and 0.8 with 0.3, give 0.3.
C15_LimitCapped ==
    IsConvertCall
    => /\ \A i \in 1..Len(call.rules) :
             call.rules[i].mode = "Limit"
             => LET v == SourceValues(call.rules[i].source,
                                      call.metahumanBlendshapes)
                IN  /\ Len(v) = 1 => result.preCurve[i] = v[1]
                    /\ Len(v) > 1
                       => result.preCurve[i] =
                              ProductOf([k \in 1..(Len(v) - 1) |->
                                             RMin(v[1], v[k + 1])])
                    /\ RLe(result.preCurve[i], v[1])
       /\ (/\ call.rules = TEST_MAPPING
           /\ \/ FrameIs("CTRL_expressions_mouthFunnelDL", Rat(3, 10),
                         "CTRL_expressions_mouthLowerLipDepressL", Rat(4, 5))
              \/ FrameIs("CTRL_expressions_mouthFunnelDL", Rat(4, 5),
                         "CTRL_expressions_mouthLowerLipDepressL", Rat(3, 10)))
          => result.cc5Blendshapes["C_Limit2"] = Rat(3, 10)

C15_Witness ==
    /\ IsConvertCall
    /\ call.rules = TEST_MAPPING
    /\ FrameIs("CTRL_expressions_mouthFunnelDL", Rat(3, 10),
               "CTRL_expressions_mouthLowerLipDepressL", Rat(4, 5))
    /\ result.cc5Blendshapes["C_Limit2"] = Rat(3, 10)

\* The product of the curve-evaluated results of the rules 1..i of the call
\* that write target (1 when none does).
RECURSIVE WritersProduct(_, _)
WritersProduct(target, i) ==
    IF i = 0 THEN One
    ELSE IF call.rules[i].target = target
    THEN RMul(WritersProduct(target, i - 1), result.curved[i])
    ELSE WritersProduct(target, i - 1)

C17_DefaultTeethOffset ==
    (IsConvertCall /\ "teethDownOffset" \notin DOMAIN call.options)
    => \A k \in 1..Len(teethCorrectives) :
          LET target == teethCorrectives[k]
              written == \E i \in 1..Len(call.rules) :
                             call.rules[i].target = target
              preOffset == IF written
                           THEN WritersProduct(target, Len(call.rules))
                           ELSE Zero
          IN  result.cc5Blendshapes[target] =
                  RMin(One, RAdd(preOffset, Rat(3, 10)))

IsArkitCall == call.fn = "applyArkitMapping"

\* C18: in direct-rename mode a source channel whose mapping value is null
\* is never written as a morph target, custom overrides included.
C18_NullNeverWritten ==
    IsArkitCall
    => \A w \in result.writes :
          LET arkitName == ARKIT_ORDER_61[w.index + 1]
          IN  ~(/\ arkitName \in DOMAIN call.mapping
                /\ call.mapping[arkitName].type = "null")

\* C19: the jaw-open index (17 when the frame length is >= 60, otherwise
\* 24), the mouth-close index 18 and the tongue-out index 51 are never
\* handed to the generic per-index morph mapping.
C19_ReservedIndicesExcluded ==
    IsArkitCall
    => LET jawIndex == IF call.length >= 60 THEN 17 ELSE 24
       IN  result.generic \cap {jawIndex, 18, 51} = {}

\* C20: whenever the rig has a jaw bone, no morph whose name matches
\* "JawOpen"/"Jaw_Open" is written on any mapping path, and the jaw-open
\* value drives only the jaw bone: no morph weight is computed from the
\* channel (the frame index) that drives the bone.
C20_JawOpenOnlyJawBone ==
    /\ (IsArkitCall /\ call.jawBone)
       => \A w \in result.writes :
             w.morph \notin JawOpenNames /\ w.index \notin result.jawBoneFrom
    /\ (call.fn = "applyMetaHumanToCC5" /\ call.jawBone)
       => \A w \in result.writes :
             w.morph \notin JawOpenNames /\ w.sources \cap result.jawBoneFrom = {}

\* The first half of C20 alone: no written morph name matches.
JawOpenNamesNeverWritten ==
    (call.fn \in {"applyArkitMapping", "applyMetaHumanToCC5"} /\ call.jawBone)
    => \A w \in result.writes : w.morph \notin JawOpenNames

\* The modelled morph names that contain "Jaw".
JawNames == {"Jaw_Forward", "Jaw_L", "Jaw_R", "Jaw_Open", "Jaw_Open_Extreme",
             "C_CornerPullL_JawOpen"}

\* The call is made on a rig without jaw bone, with jawOpen: null in the
\* mapping and jaw-open input 0.6.
NoJawBoneCase ==
    /\ IsArkitCall
    /\ ~call.jawBone
    /\ call.mapping["jawOpen"].type = "null"
    /\ call.jawOpenInput = Rat(3, 5)

LipsTogetherChannels == {lipTogetherKeys[i] : i \in 1..Len(lipTogetherKeys)}

\* C22: every lips-together value produced by the MetaHuman mapping engine
\* is exactly 40% of its computed value, on each conversion path: the 1:1
\* renaming, the rule table, and the unconverted path.
C22_LipsTogetherAttenuated ==
    /\ call.fn = "convertMetaHumanToCC5Direct"
       => \A key \in LipsTogetherChannels \cap DOMAIN call.metahumanBlendshapes :
             result[METAHUMAN_TO_CC5_DIRECT_MAPPING[key]] =
                 RMul(call.metahumanBlendshapes[key], Rat(2, 5))
    /\ IsConvertCall
       => \A i \in 1..Len(call.rules) :
             call.rules[i].target \in LipsTogetherChannels
             => result.cc5Blendshapes[call.rules[i].target] =
                    RMul(result.preCurve[i], Rat(2, 5))
    /\ call.fn = "applyMetaHumanDirect"
       => \A key \in LipsTogetherChannels \cap DOMAIN result.weights :
             result.weights[key] =
                 RMul(RMul(call.currentFrame[key], call.fadeInWeight), Rat(2, 5))

\* C23: requesting a preset name that is not in the preset table uses the
\* default preset ARKIT_TO_CC_EXTENDED instead and logs a warning (the
\* lookup yields a result, it does not throw), both in the hooks and in
\* getMapping.
C23_UnknownPresetFallsBack ==
    /\ (call.fn = "mappingConfig" /\ call.mappingPreset \notin MAPPING_PRESETS(variant))
       => (result.preset = "ARKIT_TO_CC_EXTENDED" /\ result.warned)
    /\ (call.fn = "getMapping" /\ call.mappingPreset \notin GetMappingKeys)
       => (result.preset = "ARKIT_TO_CC_EXTENDED" /\ result.warned)

\* |a - b|
Distance(a, b) == IF RLe(a, b) THEN RSub(b, a) ELSE RSub(a, b)

\* The last step was a smoothing call.
Smoothed == call.fn = "applyMorphValueSmooth" /\ call.calls > 0

\* C24: for a constant target and 0 < rate < 1, every smoothing call on a
\* channel that is not at its target emits a value between the previous
\* value and the target (it moves toward the target and never crosses it)
\* that is strictly closer to the target than the previous value was.
C24_SmoothingApproachesTarget ==
    (Smoothed /\ result.previous # call.targetValue)
    => /\ RLe(RMin(result.previous, call.targetValue), result.smoothed)
       /\ RLe(result.smoothed, RMax(result.previous, call.targetValue))
       /\ RLt(Distance(result.smoothed, call.targetValue),
              Distance(result.previous, call.targetValue))

\* A render frame of the mounted hook, with its face.
FaceFrameStep == useFrameMetahumanFace \/ useFrameArkitFace

\* C25: whenever playback is not running, a render frame multiplies the
\* smoothed weight of every non-blink morph of the rig by
\* 1 - FADE_OUT_LERP_SPEED and writes it to the slot: the weight moves
\* toward 0 at the fade-out rate, a non-zero weight is never zeroed in one
\* step, and the weights of an idle hook converge to 0 geometrically.
C25_IdleFadesOut ==
    [][(FaceFrameStep /\ ~playbackState.isPlaying)
       => \A name \in face.morphCache \ BLINK_MORPHS :
             /\ SmoothedValue(face', name) =
                    RMul(SmoothedValue(face, name), RSub(One, FADE_OUT_LERP_SPEED))
             /\ face'.influences[name] = SmoothedValue(face', name)
             /\ SmoothedValue(face, name) # Zero
                => SmoothedValue(face', name) # Zero]_vars

\* An idle render frame has faded a morph that still holds a weight.
C25_Witness ==
    /\ tickOutcome = "idle"
    /\ \E name \in face.neutralised :
           /\ SmoothedValue(face, name) # Zero
           /\ face.influences[name] = SmoothedValue(face, name)

\* C26: the drive-to-neutral pass never writes the blink morphs: after a
\* render frame that ran it, the blink slots hold the value of the blink
\* system.
C26_NeutralKeepsBlink ==
    tickOutcome \in {"idle", "emptyStop"}
    => /\ face.neutralised \cap BLINK_MORPHS = {}
       /\ \A name \in BLINK_MORPHS \cap face.morphCache :
             face.influences[name] = face.blinkState.value

\* An idle render frame on a rig with blink morphs, in the middle of a blink.
C26_Witness ==
    /\ tickOutcome = "idle"
    /\ face.neutralised # {}
    /\ "Eye_Blink_L" \in face.morphCache
    /\ face.blinkState.value # Zero
    /\ face.influences["Eye_Blink_L"] = face.blinkState.value

\* C30: no render frame reads a morph weight back from the influences
\* arrays.
C30_NoReadBack == face.morphCache # {} => face.read = {}

\* A render frame of a tracking hook got past its guards.
Tracked ==
    /\ call.fn = "trackingFrame"
    /\ call.ticks > 0
    /\ result.rotated # {}

\* C27: no per-frame update throws, whatever bones and morph slots the rig
\* has.
C27_NoFrameThrows == call.fn = "trackingFrame" => ~result.threw

\* C28: the head and pupil tracking weights stay within [0,1]; every render
\* frame moves the weight by lerpSpeed toward the speaking weight (target
\* in view, speaking), the idle weight (in view, not speaking) or 0 (out of
\* view).
C28_TrackingWeightBounded ==
    call.fn = "trackingFrame"
    => /\ RLe(Zero, result.trackingWeight)
       /\ RLe(result.trackingWeight, One)
       /\ Tracked
          => result.trackingWeight =
                 Lerp(result.previousWeight,
                      TargetWeight(call.options, call.isInView, call.isSpeaking),
                      call.options.lerpSpeed)

\* Three render frames in view while speaking have raised the head weight.
C28_Witness ==
    /\ Tracked
    /\ call.hook = "useMhaHeadTracking"
    /\ call.ticks = MaxTicks
    /\ call.isInView /\ call.isSpeaking
    /\ RLt(result.previousWeight, result.trackingWeight)
    /\ RLt(Rat(1, 5), result.trackingWeight)

\* C29: in every pupil-tracking variant, a render frame that reaches the
\* eye-look morphs writes, for each look morph the mesh has, the positive
\* part of that eye's smoothed signed value (lookOutLeft = max(0,
\* -leftHorizontal), ...) times the tracking weight.
C29_LookMorphsPositivePart ==
    (call.fn = "trackingFrame" /\ call.ticks > 0 /\ result.morphBranch)
    => /\ ~result.threw
       /\ \A key \in call.mesh.dict :
             /\ MORPH_TARGETS(call.hook)[key] \in DOMAIN result.influences
             /\ result.influences[MORPH_TARGETS(call.hook)[key]] =
                    RMul(LookAmounts(result.gaze)[key], result.trackingWeight)


(***************************************************************************)
(* C31.  Once the statistics of an utterance were delivered (before the    *)
(* playback started, between its two start triggers or after it), a        *)
(* playback that is running returns to idle: isPlaying false and the queue *)
(* reset.  It does not stay in "playing" for ever.                         *)
(***************************************************************************)
C31_StatsLeadToIdle ==
    (queuePresent /\ StatsSent /\ playbackState.isPlaying)
        ~> (~playbackState.isPlaying /\ frames = <<>>)

\* The render frame that was the last step found the playback running and
\* nothing left to play: the queue empty, or its index at the last frame.
HeldAtEnd ==
    /\ tickOutcome \in {"emptyHold", "applied", "invalid", "rangeSkip"}
    /\ frames = <<>> \/ tickFrameIndex >= Len(frames) - 1

(***************************************************************************)
(* C31, as a property of one render frame.  No frame arrives after the     *)
(* statistics, so a render frame that finds nothing left to play after     *)
(* they were delivered ends the playback; a frame that holds instead is    *)
(* repeated by every later one.                                            *)
(***************************************************************************)
C31_NoHoldAfterStats == (StatsSent /\ HeldAtEnd) => ~playbackState.isPlaying

(***************************************************************************)
(* C32.  isDraining set implies that playback is running: the scheduler is *)
(* idle (not playing, not draining), playing or draining, so a statistics  *)
(* event that arrives while idle does not leave the draining flag set.     *)
(***************************************************************************)
C32_DrainingImpliesPlaying ==
    playbackState.isDraining => playbackState.isPlaying

\* floor((elapsedMs / 1000) * 60 + FRAME_OFFSET), clamped to the buffer.
WallClockIndex(elapsedMs, len) ==
    Min((elapsedMs * TARGET_FPS) \div 1000 + FRAME_OFFSET, len - 1)

\* The render frame that was the last step had its unslowed frame position
\* within the last SLOWDOWN_FRAME_COUNT frames of the buffer.
InSlowdownWindow(elapsedMs, len) ==
    LET framesFromEnd == len - ((elapsedMs * TARGET_FPS) \div 1000 + FRAME_OFFSET)
    IN  framesFromEnd <= SLOWDOWN_FRAME_COUNT /\ framesFromEnd > 0

(***************************************************************************)
(* C33 as stated.  On every playing render frame that applies a frame, the *)
(* applied index is min(floor(((now - startTime) / 1000) * 60 +            *)
(* FRAME_OFFSET), frames.length - 1): a function of the elapsed time and   *)
(* of the buffer length alone, in both hooks.                              *)
(***************************************************************************)
C33_IndexFromElapsedTime ==
    tickOutcome = "applied"
        => tickFrameIndex
             = WallClockIndex(FrameNow - playbackState.startTime, Len(frames))

(***************************************************************************)
(* C33 amended.  The applied index is that function of the elapsed time    *)
(* and of the buffer length in useMetahumanLipsync, and in useArkitLipsync *)
(* on the render frames outside the slowdown window; inside the window     *)
(* useArkitLipsync takes the index from its accumulated effective time.    *)
(***************************************************************************)
C33_IndexFromElapsedTimeUnslowed ==
    (/\ tickOutcome = "applied"
     /\ \/ variant = "metahuman"
        \/ ~InSlowdownWindow(FrameNow - playbackState.startTime, Len(frames)))
        => tickFrameIndex
             = WallClockIndex(FrameNow - playbackState.startTime, Len(frames))

\* C33 witness: useArkitLipsync applied the frame the elapsed time selects,
\* beyond the lead-in and below the end of the buffer.
C33_Witness ==
    /\ tickOutcome = "applied"
    /\ variant = "arkit"
    /\ tickFrameIndex > FRAME_OFFSET
    /\ tickFrameIndex < Len(frames) - 1
    /\ ~InSlowdownWindow(FrameNow - playbackState.startTime, Len(frames))

(***************************************************************************)
(* C34.  In the slowdown variant the effective elapsed time a playing      *)
(* render frame takes the frame index from never exceeds the real time     *)
(* elapsed since the utterance's startTime (it is slower than real time    *)
(* inside the slowdown window and equal to it outside, and starts afresh   *)
(* with every utterance).  Times in microseconds.                          *)
(***************************************************************************)
C34_EffectiveTimeWithinElapsed ==
    (variant = "arkit" /\ tickFrameIndex >= 0)
        => playbackState.slowdownAdjustedTime
             <= (wallClock - playbackState.startTime) * 1000

\* The frame the render frame of this step applied holds no weight, or the
\* weight 0, for the morph.
SourceIsZero(name) == name \notin DOMAIN face'.frame \/ face'.frame[name] = Zero

(***************************************************************************)
(* C35.  During playback a morph that was driven to a non-zero value and   *)
(* whose source value is 0 or absent in the frames applied afterwards is   *)
(* driven toward 0 by each of those render frames: it does not stay at its *)
(* last non-zero value until playback stops.                               *)
(***************************************************************************)
C35_ZeroedChannelsDecay ==
    [][(FaceFrameStep /\ tickOutcome' = "applied")
       => \A name \in face.morphCache \ BLINK_MORPHS :
              (RLt(Zero, SmoothedValue(face, name)) /\ SourceIsZero(name))
                  => RLt(SmoothedValue(face', name), SmoothedValue(face, name))]_vars

(***************************************************************************)
(* C36.  The smoothed jaw rotation that is stored and written to the jaw   *)
(* bone is a finite number after every event and render frame, the frame   *)
(* that stops playback on an empty queue included.                         *)
(***************************************************************************)
C36_JawRotationFinite ==
    face.morphCache # {} => ~isNaN(face.currentJawRotation)

(***************************************************************************)
(* C37.  For every frame whose channel values lie within [0, 1], every     *)
(* value convertMetaHumanToCC5 returns over the shipped rule table lies    *)
(* within [0, 1]: no morph weight the lipsync targets is negative or       *)
(* greater than 1.                                                         *)
(***************************************************************************)
C37_ConvertedWithinUnit ==
    (IsConvertCall /\ call.rules = METAHUMAN_TO_CC5_MAPPING)
        => \A target \in DOMAIN result.cc5Blendshapes :
               /\ RLe(Zero, result.cc5Blendshapes[target])
               /\ RLe(result.cc5Blendshapes[target], One)

(***************************************************************************)
(* C38.  The lipsync mapping never writes the blink morphs Eye_Blink_L and *)
(* Eye_Blink_R: after every render frame their slots hold the value the    *)
(* blink system wrote, in both hooks and for every source format.          *)
(***************************************************************************)
C38_BlinkSlotsOwnedByBlinking ==
    face.morphCache # {}
        => \A name \in BLINK_MORPHS \cap face.morphCache :
               face.influences[name] = face.blinkState.value

(***************************************************************************)
(* Head and neck angles of useMhaHeadTracking.  Angles are kept in         *)
(* degrees: Math.PI / 3 is 60, Math.PI / 2 is 90, Math.PI * 0.944 is       *)
(* 169.92.  Every step of the callback but the cosine is linear in the     *)
(* angles, so the unit does not change an outcome.                         *)
(***************************************************************************)
RAbs(x) == IF RLe(Zero, x) THEN x ELSE Neg(x)

\* Math.sign
MathSign(x) == IF x = Zero THEN Zero ELSE IF RLe(Zero, x) THEN One ELSE Neg(One)

\* Math.max(-limit, Math.min(limit, x))
ClampAngle(x, limit) == RMax(Neg(limit), RMin(limit, x))

\* Math.cos at the angles the frames below use, to six decimals.
MathCos(angle) ==
    CASE angle = Rat(0, 1) -> Rat(1000000, 1000000)
      [] angle = Rat(30, 1) -> Rat(866025, 1000000)
      [] angle = Rat(45, 1) -> Rat(707107, 1000000)
      [] angle = Rat(60, 1) -> Rat(500000, 1000000)
      [] angle = Rat(75, 1) -> Rat(258819, 1000000)
      [] angle = Rat(90, 1) -> Rat(0, 1000000)
      [] angle = Rat(120, 1) -> Rat(0 - 500000, 1000000)
      [] angle = Rat(169, 1) -> Rat(0 - 981627, 1000000)
      [] angle = Rat(4248, 25) -> Rat(0 - 984564, 1000000)
      [] angle = Rat(170, 1) -> Rat(0 - 984808, 1000000)
      [] angle = Rat(175, 1) -> Rat(0 - 996195, 1000000)
      [] angle = Rat(180, 1) -> Rat(0 - 1000000, 1000000)

\* options = { ...DEFAULT_CONFIG, ...config }: the defaults, a full
\* half-circle, a range narrower than the head-only zone, and tracking
\* switched off.
HeadTrackOptions ==
    {[enabled |-> TRUE, headOnlyAngle |-> Rat(60, 1), maxTrackAngle |-> Rat(90, 1),
      maxPitchAngle |-> Rat(45, 1), lerpSpeed |-> Rat(2, 25),
      headPitchFactor |-> Rat(7, 10), neckPitchFactor |-> Rat(3, 10),
      neckYawFactor |-> Rat(7, 10), speakingWeight |-> Rat(7, 10),
      idleWeight |-> Rat(1, 2)],
     [enabled |-> TRUE, headOnlyAngle |-> Rat(60, 1), maxTrackAngle |-> Rat(180, 1),
      maxPitchAngle |-> Rat(45, 1), lerpSpeed |-> Rat(1, 2),
      headPitchFactor |-> Rat(7, 10), neckPitchFactor |-> Rat(3, 10),
      neckYawFactor |-> Rat(7, 10), speakingWeight |-> Rat(7, 10),
      idleWeight |-> Rat(1, 2)],
     [enabled |-> TRUE, headOnlyAngle |-> Rat(60, 1), maxTrackAngle |-> Rat(45, 1),
      maxPitchAngle |-> Rat(30, 1), lerpSpeed |-> One,
      headPitchFactor |-> Rat(1, 2), neckPitchFactor |-> Rat(1, 2),
      neckYawFactor |-> One, speakingWeight |-> One, idleWeight |-> Rat(1, 2)],
     [enabled |-> FALSE, headOnlyAngle |-> Rat(60, 1), maxTrackAngle |-> Rat(90, 1),
      maxPitchAngle |-> Rat(45, 1), lerpSpeed |-> Rat(2, 25),
      headPitchFactor |-> Rat(7, 10), neckPitchFactor |-> Rat(3, 10),
      neckYawFactor |-> Rat(7, 10), speakingWeight |-> Rat(7, 10),
      idleWeight |-> Rat(1, 2)]}

\* angleToTarget: the signed horizontal angle between the character's
\* forward direction and the direction to the target (the sign is +1 when
\* cross.y is 0, so straight ahead and straight behind are positive).  A
\* target straight above the head gives a zero flat direction, a dot
\* product of 0 and an angle of 90.
HorizontalAngles ==
    {Rat(0, 1), Rat(30, 1), Rat(0 - 45, 1), Rat(60, 1), Rat(0 - 75, 1), Rat(90, 1),
     Rat(0 - 120, 1), Rat(169, 1), Rat(0 - 170, 1), Rat(175, 1), Rat(180, 1)}

\* verticalAngle = Math.asin(dirToTarget.y)
VerticalAngles == {Rat(0 - 60, 1), Rat(30, 1)}

MaxHeadTicks == 2

\* Mutant: the configured angle is used as it is.
EffectiveMaxAngleUncapped(options) == options.maxTrackAngle

\* effectiveMaxAngle = Math.min(options.maxTrackAngle, Math.PI * 0.944)
EffectiveMaxAngle(options) == RMin(options.maxTrackAngle, Rat(4248, 25))

\* isInTrackingRange = dotProduct >= Math.cos(effectiveMaxAngle), with the
\* dot product of the two flat unit vectors the cosine of their angle.
IsInTrackingRange(options, angleToTarget) ==
    RLe(MathCos(EffectiveMaxAngle(options)), MathCos(RAbs(angleToTarget)))

\* Mutant: the whole clamped angle goes to the head.
TargetHeadYawUnpinned(options, clampedHorizontal) == clampedHorizontal

\* targetHeadYaw of a frame in tracking range.
TargetHeadYaw(options, clampedHorizontal) ==
    IF RLe(RAbs(clampedHorizontal), options.headOnlyAngle)
    THEN clampedHorizontal
    ELSE RMul(options.headOnlyAngle, MathSign(clampedHorizontal))

\* targetNeckYaw of a frame in tracking range.
TargetNeckYaw(options, clampedHorizontal) ==
    IF RLe(RAbs(clampedHorizontal), options.headOnlyAngle)
    THEN Zero
    ELSE LET extraAngle == RSub(RAbs(clampedHorizontal), options.headOnlyAngle)
         IN  RMul(RMul(extraAngle, MathSign(clampedHorizontal)), options.neckYawFactor)

NoAngles == [headYaw |-> Zero, headPitch |-> Zero, neckYaw |-> Zero, neckPitch |-> Zero]

\* targetHeadYaw, targetHeadPitch, targetNeckYaw and targetNeckPitch of a
\* frame.
HeadTargets(options, angleToTarget, verticalAngle) ==
    IF IsInTrackingRange(options, angleToTarget)
    THEN LET clampedHorizontal == ClampAngle(angleToTarget, options.maxTrackAngle)
             clampedVertical == ClampAngle(verticalAngle, options.maxPitchAngle)
         IN  [headYaw |-> TargetHeadYaw(options, clampedHorizontal),
              headPitch |-> RMul(Neg(clampedVertical), options.headPitchFactor),
              neckYaw |-> TargetNeckYaw(options, clampedHorizontal),
              neckPitch |-> RMul(Neg(clampedVertical), options.neckPitchFactor)]
    ELSE NoAngles

\* smoothedAngles.current after the four lerps.
SmoothAngles(angles, targets, lerp) ==
    [key \in DOMAIN angles |-> Lerp(angles[key], targets[key], lerp)]

\* The refs of useMhaHeadTracking when the head bone was found.
InitialHeadTrack ==
    [trackingWeight |-> Zero, smoothedAngles |-> NoAngles, previousAngles |-> NoAngles,
     targets |-> NoAngles, isInTrackingRange |-> FALSE, ran |-> FALSE]

\* The useFrame callback of useMhaHeadTracking, up to the smoothed angles
\* the bone quaternions are built from.
HeadTrackFrame(angleToTarget, verticalAngle, speaking) ==
    /\ call.fn = "headTrackFrame"
    /\ call.ticks < MaxHeadTicks
    /\ call' = [call EXCEPT !.ticks = call.ticks + 1, !.angleToTarget = angleToTarget,
                            !.verticalAngle = verticalAngle, !.isSpeaking = speaking]
    /\ result' =
           IF ~call.options.enabled
           THEN [result EXCEPT !.ran = FALSE]
           ELSE LET isInTrackingRange == IsInTrackingRange(call.options, angleToTarget)
                    targets == HeadTargets(call.options, angleToTarget, verticalAngle)
                IN  [trackingWeight |->
                         TrackingWeight(result.trackingWeight,
                                        TargetWeight(call.options, isInTrackingRange,
                                                     speaking),
                                        call.options.lerpSpeed),
                     smoothedAngles |->
                         SmoothAngles(result.smoothedAngles, targets,
                                      call.options.lerpSpeed),
                     previousAngles |-> result.smoothedAngles,
                     targets |-> targets,
                     isInTrackingRange |-> isInTrackingRange,
                     ran |-> TRUE]
    /\ UNCHANGED <<schedulerVars, face>>

NextHeadTrack ==
    \E angleToTarget \in HorizontalAngles, verticalAngle \in VerticalAngles,
       speaking \in BOOLEAN :
        HeadTrackFrame(angleToTarget, verticalAngle, speaking)

\* useMhaHeadTracking mounted on a character with a head bone.
InitHeadTrack ==
    /\ InitScheduler
    /\ queuePresent
    /\ variant = "metahuman"
    /\ \E options \in HeadTrackOptions :
           call = [fn |-> "headTrackFrame", options |-> options, ticks |-> 0,
                   angleToTarget |-> Zero, verticalAngle |-> Zero,
                   isSpeaking |-> FALSE]
    /\ result = InitialHeadTrack
    /\ face = NoFace

SpecHeadTrack == InitHeadTrack /\ [][NextHeadTrack]_vars

\* A render frame of the head hook has run to its end.
HeadTracked == call.fn = "headTrackFrame" /\ call.ticks > 0 /\ result.ran

(***************************************************************************)
(* C39.  When the target is in tracking range: if the magnitude of the     *)
(* clamped horizontal angle is at most headOnlyAngle, the head yaw target  *)
(* equals that angle and the neck yaw target is 0; otherwise the head yaw  *)
(* target is headOnlyAngle with the sign of the angle and the neck yaw     *)
(* target is the signed excess times neckYawFactor; hence the head yaw     *)
(* target never exceeds headOnlyAngle in magnitude.                        *)
(***************************************************************************)
C39_YawSplitBetweenHeadAndNeck ==
    (HeadTracked /\ result.isInTrackingRange)
        => LET o == call.options
               limited == RMin(o.maxTrackAngle, RAbs(call.angleToTarget))
               positive == RLe(Zero, call.angleToTarget)
               signed(x) == IF positive THEN x ELSE Neg(x)
           IN  /\ RLe(limited, o.headOnlyAngle)
                  => /\ result.targets.headYaw = signed(limited)
                     /\ result.targets.neckYaw = Zero
               /\ RLt(o.headOnlyAngle, limited)
                  => /\ result.targets.headYaw = signed(o.headOnlyAngle)
                     /\ result.targets.neckYaw =
                            signed(RMul(RSub(limited, o.headOnlyAngle), o.neckYawFactor))
               /\ RLe(RAbs(result.targets.headYaw), o.headOnlyAngle)

\* A target 75 degrees to the side under the default options: the head
\* turns to the edge of its zone and the neck takes 0.7 of the other 15
\* degrees.
C39_Witness ==
    /\ HeadTracked /\ result.isInTrackingRange
    /\ call.angleToTarget = Rat(0 - 75, 1)
    /\ call.options.maxTrackAngle = Rat(90, 1)
    /\ result.targets.headYaw = Rat(0 - 60, 1)
    /\ result.targets.neckYaw = Rat(0 - 21, 2)

(***************************************************************************)
(* C40.  Whenever the horizontal angle between the character's forward     *)
(* direction and the target exceeds min(maxTrackAngle, 169.92 degrees),    *)
(* the head and neck yaw and pitch targets are all 0 and every smoothed    *)
(* angle moves by lerpSpeed toward 0 without growing, also with a          *)
(* maxTrackAngle of a full half-circle and the target straight behind.     *)
(***************************************************************************)
C40_BlindSpotBehind ==
    (HeadTracked
     /\ RLt(RMin(call.options.maxTrackAngle, Rat(4248, 25)), RAbs(call.angleToTarget)))
        => /\ ~result.isInTrackingRange
           /\ result.targets = NoAngles
           /\ \A key \in DOMAIN NoAngles :
                  /\ result.smoothedAngles[key] =
                         Lerp(result.previousAngles[key], Zero, call.options.lerpSpeed)
                  /\ RLe(RAbs(result.smoothedAngles[key]),
                         RAbs(result.previousAngles[key]))

\* With a maxTrackAngle of 180 degrees the head had turned to a target in
\* range; the target is now straight behind and the head yaw turns back.
C40_Witness ==
    /\ HeadTracked
    /\ call.options.maxTrackAngle = Rat(180, 1)
    /\ call.angleToTarget = Rat(180, 1)
    /\ result.targets = NoAngles
    /\ RLt(Zero, result.previousAngles.headYaw)
    /\ RLt(result.smoothedAngles.headYaw, result.previousAngles.headYaw)

====
